---- MODULE Spec2Model ----
(***************************************************************************)
(* Guitar-Hero-React: the judgment engine (useGuitarGame), the game        *)
(* manager (GuitarGame / useGameplayManager) and the audio clock           *)
(* (useAudioPlayer).                                                       *)
(*                                                                         *)
(* Units.  The source computes with floating-point seconds and pixels.     *)
(* The model uses integers: one time unit is 1/1100 s and one length unit  *)
(* is 1/6 px.  With these units noteSpeed = (500 - (-50)) px / 3 s is      *)
(* exactly 1 length unit per time unit, and a calibration step of 10 ms    *)
(* is exactly 11 time units, so every formula of the source is evaluated   *)
(* without rounding.                                                       *)
(***************************************************************************)
EXTENDS Integers, Sequences, FiniteSets, TLC

SEC == 1100
PX == 6

(***************************************************************************)
(* constants/game.constants.ts                                             *)
(***************************************************************************)
GAME_CONFIG == [hitZoneY |-> 500 * PX, noteRadius |-> 25 * PX]

HIT_WINDOWS == [perfect |-> 30 * PX, good |-> 60 * PX, ok |-> 100 * PX]

POINTS == [perfect |-> 100, good |-> 50, ok |-> 25, miss |-> 0]

COMBO_MULTIPLIERS ==
  [x1 |-> [minCombo |-> 0, multiplier |-> 1],
   x2 |-> [minCombo |-> 10, multiplier |-> 2],
   x3 |-> [minCombo |-> 20, multiplier |-> 3],
   x4 |-> [minCombo |-> 30, multiplier |-> 4]]

SPAWN_AHEAD_TIME == 3 * SEC

SPAWN_Y == (0 - 50) * PX

\* KEY_TO_LANE maps the keys a, s, d, f, j to the lanes 0..4
KEY_TO_LANE == 0 .. 4

\* handleCalibrationChange: the offset is clamped to [-200, 200] ms and the
\* +/- keys change it by 10 ms
CALIBRATION_LIMIT == 200

CALIBRATION_STEP == 10

COUNTDOWN_START == 3

\* COUNTDOWN_INTERVAL, 1000 ms
COUNTDOWN_INTERVAL == SEC

(***************************************************************************)
(* Bounds of the model                                                     *)
(***************************************************************************)
\* the performance clock is not advanced beyond MaxNow
MaxNow == 900
\* a lane press is not taken once the session has MaxMisses misses
MaxMisses == 1
\* number of pause/resume toggles whose audio suspend/resume is in flight
MaxInflight == 1
\* the audio-clock specification stops the real-time clock at MaxAudioNow
MaxAudioNow == 220
\* the scoring specification judges at most MaxPerfects perfect presses
\* and MaxOthers other presses
MaxPerfects == 31
\* the calibration keys are not pressed beyond an offset of MaxOffset ms
MaxOffset == 20
MaxOthers == 2

\* time between two animation frames (120 units = 109 ms = 20 px of travel)
FrameDeltas == {120, 180}

\* real time passing in the audio-clock specification
AudioDeltas == {110}

(***************************************************************************)
(* Songs (SongData): notes sorted by time as loadFromFile leaves them,     *)
(* carril in 0..4, metadata.duration any number.                           *)
(***************************************************************************)
SongNote(s, c) == [segundo |-> s, carril |-> c]

\* two notes of one lane 20 px apart and a note of another lane; every note
\* has passed the hit zone before the song ends
SongClose ==
  [notes |-> << SongNote(120, 0), SongNote(240, 0), SongNote(240, 1) >>,
   duration |-> 660]

\* a note due at once, a note that spawns during the song and is still
\* falling when the song ends, and a note that is not due before the end
SongLate ==
  [notes |-> << SongNote(120, 2), SongNote(SPAWN_AHEAD_TIME + 120, 2),
                SongNote(SPAWN_AHEAD_TIME + 3000, 4) >>,
   duration |-> 480]

Songs == {SongClose, SongLate}

(***************************************************************************)
(* useGuitarGame: utility functions                                        *)
(***************************************************************************)
Abs(x) == IF x < 0 THEN 0 - x ELSE x

getMultiplier(combo) ==
  IF combo >= COMBO_MULTIPLIERS.x4.minCombo THEN COMBO_MULTIPLIERS.x4.multiplier
  ELSE IF combo >= COMBO_MULTIPLIERS.x3.minCombo THEN COMBO_MULTIPLIERS.x3.multiplier
  ELSE IF combo >= COMBO_MULTIPLIERS.x2.minCombo THEN COMBO_MULTIPLIERS.x2.multiplier
  ELSE COMBO_MULTIPLIERS.x1.multiplier

\* a variant of calculatePoints: the multiplier of the combo held before the hit
calculatePointsBeforeHit(result, combo) ==
  IF result = "null" \/ result = "miss" THEN 0
  ELSE POINTS[result] * getMultiplier(combo - 1)

calculatePoints(result, combo) ==
  IF result = "null" \/ result = "miss" THEN 0
  ELSE POINTS[result] * getMultiplier(combo)

\* closestDistance starts at Infinity: larger than any distance on the track
Infinity == 1000000 * PX

\* the effect's pausedGameTime, a const that no code updates
pausedGameTime == 0

noteSpeed == (GAME_CONFIG.hitZoneY - SPAWN_Y) \div SPAWN_AHEAD_TIME

(***************************************************************************)
(* useGuitarGame: the state the main effect creates each time it runs      *)
(***************************************************************************)
InitialStats ==
  [score |-> 0, combo |-> 0, maxCombo |-> 0,
   perfects |-> 0, goods |-> 0, oks |-> 0, misses |-> 0]

InitialLastHit == [result |-> "null", points |-> 0]

\* song.notes.map(...): every note starts unspawned, not hit, not missed
InitialGameNotes(s) ==
  [i \in 1 .. Len(s.notes) |->
     [segundo |-> s.notes[i].segundo, carril |-> s.notes[i].carril,
      y |-> SPAWN_Y, spawned |-> FALSE, hit |-> FALSE, missed |-> FALSE]]


(***************************************************************************)
(* useGuitarGame: spawnNotes, updateNotes, checkHit                        *)
(***************************************************************************)
\* the while loop of spawnNotes, from index idx (0-based as in the source)
RECURSIVE spawnNotes(_, _, _)
spawnNotes(notes, idx, t) ==
  IF idx < Len(notes) /\ notes[idx + 1].segundo - SPAWN_AHEAD_TIME <= t
  THEN spawnNotes(
         [notes EXCEPT
            ![idx + 1].y = GAME_CONFIG.hitZoneY
                           - (notes[idx + 1].segundo - t) * noteSpeed,
            ![idx + 1].spawned = TRUE],
         idx + 1, t)
  ELSE [gameNotes |-> notes, nextNoteIndex |-> idx]

\* one iteration of the loop of updateNotes
updateNote(note, deltaTime) ==
  IF ~note.spawned \/ note.hit \/ note.missed THEN note
  ELSE LET y2 == note.y + noteSpeed * deltaTime IN
       [note EXCEPT
          !.y = y2,
          !.missed = y2 > GAME_CONFIG.hitZoneY + GAME_CONFIG.noteRadius * 2]

\* a variant of updateNotes: a passing note does not break the combo
updateNotesKeepCombo(notes, st, lh, deltaTime) ==
  LET moved == [i \in 1 .. Len(notes) |-> updateNote(notes[i], deltaTime)]
      newly == {i \in 1 .. Len(notes) : moved[i].missed /\ ~notes[i].missed}
  IN [gameNotes |-> moved,
      stats |-> IF newly = {} THEN st
                ELSE [st EXCEPT !.misses = st.misses + Cardinality(newly)],
      lastHit |-> IF newly = {} THEN lh
                  ELSE [result |-> "miss", points |-> 0]]

\* updateNotes: the notes, the stats and lastHit after the loop
updateNotes(notes, st, lh, deltaTime) ==
  LET moved == [i \in 1 .. Len(notes) |-> updateNote(notes[i], deltaTime)]
      newly == {i \in 1 .. Len(notes) : moved[i].missed /\ ~notes[i].missed}
  IN [gameNotes |-> moved,
      stats |-> IF newly = {} THEN st
                ELSE [st EXCEPT !.combo = 0,
                                !.misses = st.misses + Cardinality(newly)],
      lastHit |-> IF newly = {} THEN lh
                  ELSE [result |-> "miss", points |-> 0]]

\* a variant of isCloser: a later note at the same distance replaces the
\* earlier one
isCloserOrEqual(distance, closestDistance) ==
  distance <= closestDistance /\ distance <= HIT_WINDOWS.ok

\* checkHit, the test of the search loop
isCloser(distance, closestDistance) ==
  distance < closestDistance /\ distance <= HIT_WINDOWS.ok

\* checkHit, the search loop: the index of closestNote (0 when null) after
\* the notes 1..i have been visited
RECURSIVE closestNote(_, _, _)
closestNote(notes, lane, i) ==
  IF i = 0 THEN 0
  ELSE LET prev == closestNote(notes, lane, i - 1)
           note == notes[i]
           distance == Abs(note.y - GAME_CONFIG.hitZoneY)
       IN IF ~note.spawned \/ note.hit \/ note.missed \/ note.carril # lane
          THEN prev
          ELSE IF isCloser(distance,
                           IF prev = 0 THEN Infinity
                           ELSE Abs(notes[prev].y - GAME_CONFIG.hitZoneY))
               THEN i
               ELSE prev

\* a variant of hitResult: the edge of a window belongs to the next window
hitResultStrict(closestDistance) ==
  IF closestDistance < HIT_WINDOWS.perfect THEN "perfect"
  ELSE IF closestDistance < HIT_WINDOWS.good THEN "good"
  ELSE IF closestDistance <= HIT_WINDOWS.ok THEN "ok"
  ELSE "null"

\* checkHit, the classification of closestDistance
hitResult(closestDistance) ==
  IF closestDistance <= HIT_WINDOWS.perfect THEN "perfect"
  ELSE IF closestDistance <= HIT_WINDOWS.good THEN "good"
  ELSE IF closestDistance <= HIT_WINDOWS.ok THEN "ok"
  ELSE "null"

\* checkHit, the branch taken when closestNote is not null
hitBranch(st, closestDistance) ==
  LET result == hitResult(closestDistance)
      combo2 == IF result = "null" THEN st.combo ELSE st.combo + 1
      points == calculatePoints(result, combo2)
  IN [stats |->
        [score |-> st.score + points,
         combo |-> combo2,
         maxCombo |-> IF combo2 > st.maxCombo THEN combo2 ELSE st.maxCombo,
         perfects |-> st.perfects + (IF result = "perfect" THEN 1 ELSE 0),
         goods |-> st.goods + (IF result = "good" THEN 1 ELSE 0),
         oks |-> st.oks + (IF result = "ok" THEN 1 ELSE 0),
         misses |-> st.misses],
      lastHit |-> [result |-> result, points |-> points]]

\* a variant of missBranch: the stray press does not break the combo
missBranchKeepCombo(st) ==
  [stats |-> [st EXCEPT !.misses = st.misses + 1],
   lastHit |-> [result |-> "miss", points |-> 0]]

\* checkHit, the branch taken when closestNote is null
missBranch(st) ==
  [stats |-> [st EXCEPT !.combo = 0, !.misses = st.misses + 1],
   lastHit |-> [result |-> "miss", points |-> 0]]

checkHit(notes, st, lane) ==
  LET c == closestNote(notes, lane, Len(notes)) IN
  IF c # 0
  THEN LET h == hitBranch(st, Abs(notes[c].y - GAME_CONFIG.hitZoneY)) IN
       [gameNotes |-> [notes EXCEPT ![c].hit = TRUE],
        stats |-> h.stats, lastHit |-> h.lastHit]
  ELSE LET m == missBranch(st) IN
       [gameNotes |-> notes, stats |-> m.stats, lastHit |-> m.lastHit]

\* gameLoop, end of song: the notes still on screen are marked missed
endOfSong(notes, st) ==
  LET rest == {i \in 1 .. Len(notes) :
                 notes[i].spawned /\ ~notes[i].hit /\ ~notes[i].missed}
  IN [gameNotes |-> [i \in 1 .. Len(notes) |->
                       IF i \in rest THEN [notes[i] EXCEPT !.missed = TRUE]
                       ELSE notes[i]],
      stats |-> [st EXCEPT !.misses = st.misses + Cardinality(rest)]]

(***************************************************************************)
(* useAudioPlayer: the refs and the state of the hook, as one record       *)
(*   ctx          audioContextRef.current is not null                      *)
(*   running      the AudioContext is running (not suspended)              *)
(*   ctxTime      audioContext.currentTime                                 *)
(***************************************************************************)
InitialAudio ==
  [ctx |-> FALSE, running |-> FALSE, ctxTime |-> 0,
   startTimeRef |-> 0, pausedAtRef |-> 0, calibrationOffsetRef |-> 0,
   isPlayingRef |-> FALSE, isPlaying |-> FALSE, isLoaded |-> FALSE]

\* loadAudioFile, successful: getAudioContext creates the context once
loadAudioFile(a) ==
  [a EXCEPT !.ctx = TRUE,
            !.running = IF a.ctx THEN a.running ELSE TRUE,
            !.ctxTime = IF a.ctx THEN a.ctxTime ELSE 0,
            !.isLoaded = TRUE, !.isPlaying = FALSE]

getCurrentTime(a) ==
  IF ~a.ctx THEN 0
  ELSE IF ~a.isPlayingRef THEN a.pausedAtRef
  ELSE (a.ctxTime - a.startTimeRef) + (a.calibrationOffsetRef * SEC) \div 1000

play(a, fromTime) ==
  IF ~a.ctx \/ ~a.isLoaded THEN a
  ELSE [a EXCEPT !.startTimeRef = a.ctxTime, !.isPlaying = TRUE,
                 !.isPlayingRef = TRUE, !.pausedAtRef = fromTime]

\* pause, up to the await of audioContext.suspend()
pauseBegin(a) == [a EXCEPT !.pausedAtRef = getCurrentTime(a)]

\* pause, after audioContext.suspend() has resolved
pauseEnd(a) ==
  [a EXCEPT !.running = FALSE, !.isPlaying = FALSE, !.isPlayingRef = FALSE]

\* resume, after audioContext.resume() has resolved
resumeEnd(a) ==
  [a EXCEPT !.running = TRUE,
            !.startTimeRef = a.ctxTime - a.pausedAtRef,
            !.isPlaying = TRUE, !.isPlayingRef = TRUE]

stop(a) ==
  [a EXCEPT !.pausedAtRef = 0, !.startTimeRef = 0,
            !.isPlaying = FALSE, !.isPlayingRef = FALSE]

cleanup(a) ==
  [stop(a) EXCEPT !.ctx = FALSE, !.running = FALSE, !.ctxTime = 0,
                  !.isLoaded = FALSE]

setCalibrationOffset(a, offsetMs) ==
  [a EXCEPT !.calibrationOffsetRef = offsetMs]

\* the clock of a running AudioContext advances with real time
advanceAudio(a, d) ==
  IF a.ctx /\ a.running THEN [a EXCEPT !.ctxTime = a.ctxTime + d] ELSE a

Min(x, y) == IF x < y THEN x ELSE y

Max(x, y) == IF x > y THEN x ELSE y


(***************************************************************************)
(* State                                                                   *)
(***************************************************************************)
VARIABLES
  \* GuitarGame / useGameplayManager (React state and refs)
  gameState,             \* "menu", "countdown", "playing", "paused", "finished"
  countdownNumber,
  countdownIntervalRef,  \* TRUE while the countdown interval is set
  finalStats,            \* << >> for null, << stats >> otherwise
  song,                  \* useSongLoader: << >> for null, << song >> otherwise
  rendered,              \* the state of the last render, which the closures
                         \* of that render (the engine's effect, the key
                         \* listener, handlePauseToggle, pause, resume) see
  inflight,              \* pause/resume toggles awaiting suspend()/resume()
  \* useAudioPlayer
  audio,
  \* useGuitarGame: the locals of the running effect
  gameNotes,
  nextNoteIndex,
  stats,
  lastHit,
  gameTime,
  gameStartTimestamp,    \* << >> for null, << t >> otherwise
  lastFrameTime,
  animationId,           \* TRUE while a requestAnimationFrame is pending
  \* the environment: the performance clock
  now,
  \* useSongLoader: parserRef, the ChartParser or MidiParser of the file
  parserRef,
  \* useSongLoader: error, isLoading, availableDifficulties, metadataRef
  loader,
  \* the parse call in progress: the parser being built, the input and the
  \* locals of parse and parseTrack
  parse,
  \* useUserProfiles: the state { users, activeUserId } of the store
  profilesState,
  \* GameResults: scoreSavedRef of the mounted results screen (FALSE while
  \* no results screen is mounted: a mount creates the ref anew)
  scoreSavedRef,
  \* the window: the intervals that startCountdown has set and that are not
  \* cleared, oldest first; countdownIntervalRef holds the last of them
  timers

\* parserRef.current = null
NoParser == [kind |-> "none"]

\* no parse call in progress
NoParse == [kind |-> "none"]

\* Partial<SongMetadata> without any field: "" and -1 stand for undefined
NoMetadata ==
  [songName |-> "", artist |-> "", charter |-> "", chartDifficulty |-> 0 - 1,
   duration |-> 0 - 1]

\* useSongLoader: the state after the first render; "" stands for null
NewLoader ==
  [error |-> "", isLoading |-> FALSE, availableDifficulties |-> << >>,
   metadataRef |-> NoMetadata]

loaderVars == << loader, parse >>

managerVars ==
  << gameState, countdownNumber, countdownIntervalRef, finalStats, song,
     rendered, inflight >>

engineVars ==
  << gameNotes, nextNoteIndex, stats, lastHit, gameTime, gameStartTimestamp,
     lastFrameTime, animationId >>

profileVars == << profilesState, scoreSavedRef >>

shellVars == << profileVars, timers >>

vars ==
  << managerVars, audio, engineVars, now, parserRef, loaderVars,
     shellVars >>

\* the render that the closures in use come from
Snapshot(gs, a) == [gameState |-> gs, isPlaying |-> a.isPlaying]

\* the main effect of useGuitarGame has set up the loop and the key listener
EngineActive(r, sg) ==
  sg # << >> /\ r.gameState \in {"playing", "paused"}

\* const isPaused = gameState === 'paused'
isPaused == rendered.gameState = "paused"

(***************************************************************************)
(* The main effect of useGuitarGame.  Its dependency list holds gameState  *)
(* and the callbacks onGameEnd / onPauseToggle, which are new functions in *)
(* every render of the manager, so every render runs the cleanup and then  *)
(* the effect body again: all locals are created anew.                     *)
(***************************************************************************)
RunEffect(r, sg) ==
  IF EngineActive(r, sg)
  THEN /\ gameNotes' = InitialGameNotes(sg[1])
       /\ nextNoteIndex' = 0
       /\ stats' = InitialStats
       /\ lastHit' = InitialLastHit
       /\ gameTime' = 0
       /\ gameStartTimestamp' = << >>
       /\ lastFrameTime' = 0
       /\ animationId' = TRUE
  ELSE /\ gameNotes' = << >>
       /\ nextNoteIndex' = 0
       /\ stats' = InitialStats
       /\ lastHit' = InitialLastHit
       /\ gameTime' = 0
       /\ gameStartTimestamp' = << >>
       /\ lastFrameTime' = 0
       /\ animationId' = FALSE

(***************************************************************************)
(* useUserProfiles: the store of user profiles and their scores.           *)
(* A user is [id, scores]; "" stands for null.  generateUserId joins the   *)
(* clock and a random suffix: it is an id no user of the list has.         *)
(***************************************************************************)
UserIds == {"user_1", "user_2", "user_3"}

\* loadProfilesFromStorage with nothing stored
EmptyStore == [users |-> << >>, activeUserId |-> ""]

RECURSIVE filterUsers(_, _)
\* prev.users.filter(u => u.profile.id !== userId)
filterUsers(users, userId) ==
  IF users = << >> THEN << >>
  ELSE IF Head(users).id # userId
       THEN << Head(users) >> \o filterUsers(Tail(users), userId)
       ELSE filterUsers(Tail(users), userId)

\* state.users.find(u => u.profile.id === state.activeUserId) ?? null
currentUser(st) ==
  LET found == {i \in DOMAIN st.users : st.users[i].id = st.activeUserId}
  IN IF found = {} THEN << >>
     ELSE << st.users[CHOOSE i \in found : \A j \in found : i <= j] >>

hasProfiles(st) == Len(st.users) > 0

hasActiveUser(st) == st.activeUserId # "" /\ currentUser(st) # << >>

\* registerUser: the new user is appended and selected
registerUser(st, id) ==
  [users |-> Append(st.users, [id |-> id, scores |-> << >>]),
   activeUserId |-> id]

\* switchUser: an id that no user has leaves the state as it is
switchUser(st, userId) ==
  IF \E i \in DOMAIN st.users : st.users[i].id = userId
  THEN [st EXCEPT !.activeUserId = userId]
  ELSE st

\* a variant of deleteUser that keeps activeUserId
deleteUserKeepActive(st, userId) ==
  [users |-> filterUsers(st.users, userId), activeUserId |-> st.activeUserId]

\* deleteUser: when the active user goes, the first remaining user is
\* selected, or null when none remains
deleteUser(st, userId) ==
  LET newUsers == filterUsers(st.users, userId)
      newActiveId == IF st.activeUserId = userId
                     THEN IF Len(newUsers) > 0 THEN newUsers[1].id ELSE ""
                     ELSE st.activeUserId
  IN [users |-> newUsers, activeUserId |-> newActiveId]

\* addScore: the record, stamped with the clock, is appended to the scores
\* of every user whose id is activeUserId
addScore(st, score, t) ==
  IF st.activeUserId = "" THEN st
  ELSE LET scoreRecord == [score |-> score.score,
                           accuracy |-> score.accuracy,
                           rank |-> score.rank,
                           maxCombo |-> score.maxCombo,
                           playedAt |-> t]
       IN [st EXCEPT !.users =
             [i \in DOMAIN st.users |->
                IF st.users[i].id = st.activeUserId
                THEN [st.users[i] EXCEPT !.scores = Append(@, scoreRecord)]
                ELSE st.users[i]]]

(***************************************************************************)
(* useGameplayManager: handleSaveScore, and the effect of GameResults      *)
(***************************************************************************)
\* Math.round(totalHits / totalNotes * 100)
calculateAccuracy(s) ==
  LET totalHits == s.perfects + s.goods + s.oks
      totalNotes == totalHits + s.misses
  IN IF totalNotes = 0 THEN 0
     ELSE (200 * totalHits + totalNotes) \div (2 * totalNotes)

getRank(accuracy) ==
  IF accuracy >= 95 THEN "S"
  ELSE IF accuracy >= 90 THEN "A"
  ELSE IF accuracy >= 80 THEN "B"
  ELSE IF accuracy >= 70 THEN "C"
  ELSE IF accuracy >= 60 THEN "D"
  ELSE "F"

\* handleSaveScore(stats) of a render with the song sg and the store st; the
\* fields of the record taken from the song's metadata are left out
handleSaveScore(st, sg, s, t) ==
  IF sg = << >> \/ ~hasActiveUser(st) THEN st
  ELSE LET accuracy == calculateAccuracy(s)
       IN addScore(st, [score |-> s.score, accuracy |-> accuracy,
                        rank |-> getRank(accuracy),
                        maxCombo |-> s.maxCombo], t)

\* Gameplay renders GameResults
resultsShown(r, fs, sg, st) ==
  hasProfiles(st) /\ r.gameState = "finished" /\ fs # << >> /\ sg # << >>

\* a variant of saveScoreEffect without scoreSavedRef's test
saveScoreEffectEveryRender(r, fs, sg, st) ==
  IF resultsShown(r, fs, sg, st)
  THEN /\ scoreSavedRef' = TRUE
       /\ profilesState' = handleSaveScore(st, sg, fs[1], now)
  ELSE /\ scoreSavedRef' = FALSE
       /\ profilesState' = st

\* the effect of GameResults after a render r of the manager with the store
\* st: handleSaveScore is a new function in every render, so the effect
\* runs after every render of the results screen, and scoreSavedRef lets
\* it save once; a results screen that is not rendered is unmounted
saveScoreEffect(r, fs, sg, st) ==
  IF resultsShown(r, fs, sg, st)
  THEN IF ~scoreSavedRef
       THEN /\ scoreSavedRef' = TRUE
            /\ profilesState' = handleSaveScore(st, sg, fs[1], now)
       ELSE /\ scoreSavedRef' = scoreSavedRef
            /\ profilesState' = st
  ELSE /\ scoreSavedRef' = FALSE
       /\ profilesState' = st

\* a render of the manager that leaves the store alone
GameResultsEffect(r, fs, sg) == saveScoreEffect(r, fs, sg, profilesState)

Init ==
  /\ gameState = "menu"
  /\ countdownNumber = COUNTDOWN_START
  /\ countdownIntervalRef = FALSE
  /\ finalStats = << >>
  /\ song = << >>
  /\ rendered = Snapshot("menu", InitialAudio)
  /\ inflight = << >>
  /\ audio = InitialAudio
  /\ gameNotes = << >>
  /\ nextNoteIndex = 0
  /\ stats = InitialStats
  /\ lastHit = InitialLastHit
  /\ gameTime = 0
  /\ gameStartTimestamp = << >>
  /\ lastFrameTime = 0
  /\ animationId = FALSE
  /\ now = 0
  /\ parserRef = NoParser
  /\ loader = NewLoader
  /\ parse = NoParse
  /\ profilesState = EmptyStore
  /\ scoreSavedRef = FALSE
  /\ timers = << >>

(***************************************************************************)
(* Menu                                                                    *)
(***************************************************************************)
\* useSongLoader: loadTestSong, or loadFromFile of a file that validates
LoadSong ==
  /\ rendered.gameState = "menu" /\ gameState = "menu"
  /\ \E s \in Songs : song' = << s >>
  /\ UNCHANGED << gameState, countdownNumber, countdownIntervalRef,
                  finalStats, rendered, inflight, audio, engineVars, now >>
  /\ UNCHANGED parserRef
  /\ UNCHANGED loaderVars
  /\ UNCHANGED shellVars

\* handleAudioFileSelect -> loadAudioFile
LoadAudio ==
  /\ rendered.gameState = "menu" /\ gameState = "menu"
  /\ ~audio.isLoaded
  /\ audio' = loadAudioFile(audio)
  /\ rendered' = Snapshot(gameState, audio')
  /\ UNCHANGED << gameState, countdownNumber, countdownIntervalRef,
                  finalStats, song, inflight, engineVars, now >>
  /\ UNCHANGED parserRef
  /\ UNCHANGED loaderVars
  /\ UNCHANGED shellVars

\* clearCountdownInterval: the interval of the ref, if any, is cleared
clearCountdownInterval(tm, ref) ==
  IF ref THEN SubSeq(tm, 1, Len(tm) - 1) ELSE tm

\* startCountdown, called from a button: the update is rendered at once.
\* The callback of the new interval keeps the audioPlayer of the render the
\* button was clicked in: its isLoaded is the one of that render
startCountdown ==
  /\ countdownNumber' = COUNTDOWN_START
  /\ gameState' = "countdown"
  /\ countdownIntervalRef' = TRUE
  /\ timers' = Append(clearCountdownInterval(timers, countdownIntervalRef),
                      [created |-> now, due |-> now + COUNTDOWN_INTERVAL,
                       isLoaded |-> audio.isLoaded])
  /\ rendered' = Snapshot("countdown", audio)
  /\ RunEffect(rendered', song)

handleStartGame ==
  /\ rendered.gameState = "menu" /\ gameState = "menu"
  /\ song # << >>
  /\ finalStats' = << >>
  /\ startCountdown
  /\ UNCHANGED << song, inflight, audio, now >>
  /\ UNCHANGED parserRef
  /\ UNCHANGED loaderVars
  /\ UNCHANGED profileVars

handlePlayAgain ==
  /\ rendered.gameState = "finished" /\ gameState = "finished"
  /\ finalStats # << >> /\ song # << >>
  /\ finalStats' = << >>
  /\ startCountdown
  /\ UNCHANGED << song, inflight, audio, now >>
  /\ UNCHANGED parserRef
  /\ UNCHANGED loaderVars
  /\ GameResultsEffect(rendered', finalStats', song')

handleBackToMenu ==
  /\ rendered.gameState = "finished" /\ gameState = "finished"
  /\ finalStats # << >> /\ song # << >>
  /\ finalStats' = << >>
  /\ song' = << >>
  /\ audio' = cleanup(audio)
  /\ gameState' = "menu"
  /\ rendered' = Snapshot("menu", audio')
  /\ RunEffect(rendered', song')
  /\ UNCHANGED << countdownNumber, countdownIntervalRef, inflight, now >>
  /\ UNCHANGED parserRef
  /\ UNCHANGED loaderVars
  /\ GameResultsEffect(rendered', finalStats', song')
  /\ UNCHANGED timers

\* the callback of the interval timers[i]: the interval is set again for
\* the next second unless the callback has cleared it
intervalCallback(i) ==
  /\ IF countdownNumber <= 1
     THEN /\ countdownIntervalRef' = FALSE
          /\ timers' = clearCountdownInterval(
                         [timers EXCEPT ![i].due = @ + COUNTDOWN_INTERVAL],
                         countdownIntervalRef)
          /\ audio' = IF timers[i].isLoaded THEN play(audio, 0) ELSE audio
          /\ gameState' = "playing"
          /\ countdownNumber' = 0
     ELSE /\ countdownNumber' = countdownNumber - 1
          /\ timers' = [timers EXCEPT ![i].due = @ + COUNTDOWN_INTERVAL]
          /\ UNCHANGED << countdownIntervalRef, audio, gameState >>
  /\ UNCHANGED << finalStats, song, rendered, inflight, engineVars, now >>
  /\ UNCHANGED parserRef
  /\ UNCHANGED loaderVars
  /\ UNCHANGED profileVars

\* the callback of a countdown interval runs
CountdownTick ==
  \E i \in DOMAIN timers : intervalCallback(i)

\* React renders the manager with the current state; the engine's effect
\* is cleaned up and run again
Render ==
  /\ rendered # Snapshot(gameState, audio)
  /\ rendered' = Snapshot(gameState, audio)
  /\ RunEffect(rendered', song)
  /\ UNCHANGED << gameState, countdownNumber, countdownIntervalRef,
                  finalStats, song, inflight, audio, now >>
  /\ UNCHANGED parserRef
  /\ UNCHANGED loaderVars
  /\ GameResultsEffect(rendered', finalStats', song')
  /\ UNCHANGED timers

(***************************************************************************)
(* Keys and frames of the running engine                                   *)
(***************************************************************************)
\* handleKeyDown with the pause key -> handlePauseToggle of the last render
PauseKey ==
  /\ EngineActive(rendered, song)
  /\ IF rendered.gameState = "playing" /\ audio.isLoaded
        /\ audio.ctx /\ rendered.isPlaying
     THEN \* audioPlayer.pause() runs up to its await
          /\ Len(inflight) < MaxInflight
          /\ audio' = pauseBegin(audio)
          /\ inflight' = Append(inflight, "pause")
          /\ UNCHANGED << gameState, rendered, engineVars >>
     ELSE IF rendered.gameState = "paused" /\ audio.isLoaded
             /\ audio.ctx /\ ~rendered.isPlaying
     THEN \* audioPlayer.resume() runs up to its await
          /\ Len(inflight) < MaxInflight
          /\ inflight' = Append(inflight, "resume")
          /\ UNCHANGED << gameState, rendered, audio, engineVars >>
     ELSE IF audio.isLoaded
     THEN \* pause() / resume() returned at once; the update after the
          \* await is rendered later
          /\ gameState' = IF rendered.gameState = "playing" THEN "paused"
                          ELSE "playing"
          /\ UNCHANGED << rendered, inflight, audio, engineVars >>
     ELSE \* no audio: no await, the update is rendered at once
          /\ gameState' = IF rendered.gameState = "playing" THEN "paused"
                          ELSE "playing"
          /\ rendered' = Snapshot(gameState', audio)
          /\ RunEffect(rendered', song)
          /\ UNCHANGED << inflight, audio >>
  /\ UNCHANGED << countdownNumber, countdownIntervalRef, finalStats, song,
                  now >>
  /\ UNCHANGED parserRef
  /\ UNCHANGED loaderVars
  /\ UNCHANGED shellVars

\* suspend() / resume() of the AudioContext resolves: the rest of pause /
\* resume runs and then the rest of handlePauseToggle
ToggleSettles ==
  /\ inflight # << >>
  /\ inflight' = Tail(inflight)
  /\ IF Head(inflight) = "pause"
     THEN /\ audio' = pauseEnd(audio)
          /\ gameState' = "paused"
     ELSE /\ audio' = resumeEnd(audio)
          /\ gameState' = "playing"
  /\ UNCHANGED << countdownNumber, countdownIntervalRef, finalStats, song,
                  rendered, engineVars, now >>
  /\ UNCHANGED parserRef
  /\ UNCHANGED loaderVars
  /\ UNCHANGED shellVars

\* onGameEnd(stats) hands over the stats object of the effect itself, and
\* setFinalStats keeps that object: until the effect runs again, finalStats
\* is the object checkHit writes to
finalStatsIsStats ==
  finalStats # << >> /\ EngineActive(rendered, song) /\ ~animationId

\* handleKeyDown with a lane key -> checkHit
LaneKey ==
  /\ EngineActive(rendered, song)
  /\ ~isPaused
  /\ stats.misses < MaxMisses
  /\ \E lane \in KEY_TO_LANE :
       LET r == checkHit(gameNotes, stats, lane) IN
       /\ gameNotes' = r.gameNotes
       /\ stats' = r.stats
       /\ lastHit' = r.lastHit
       /\ finalStats' = IF finalStatsIsStats THEN << r.stats >>
                        ELSE finalStats
  /\ UNCHANGED << gameState, countdownNumber, countdownIntervalRef, song,
                  rendered, inflight, audio, nextNoteIndex, gameTime,
                  gameStartTimestamp, lastFrameTime, animationId, now >>
  /\ UNCHANGED parserRef
  /\ UNCHANGED loaderVars
  /\ UNCHANGED shellVars

\* gameLoop, called by requestAnimationFrame with the time stamp currentTime
Frame ==
  /\ animationId
  /\ \E d \in FrameDeltas :
       LET currentTime == now + d
           deltaTime == IF lastFrameTime = 0 THEN 0
                        ELSE currentTime - lastFrameTime
           start == IF gameStartTimestamp = << >> THEN currentTime
                    ELSE gameStartTimestamp[1]
           t == pausedGameTime + (currentTime - start)
       IN
       /\ currentTime <= MaxNow
       /\ now' = currentTime
       /\ lastFrameTime' = currentTime
       /\ IF isPaused
          THEN \* only drawing
               /\ UNCHANGED << managerVars, audio, gameNotes, nextNoteIndex, stats,
                               lastHit, gameTime, gameStartTimestamp,
                               animationId >>
          ELSE
            /\ gameStartTimestamp' = << start >>
            /\ gameTime' = t
            /\ IF t >= song[1].duration
               THEN \* end of the song: onGameEnd(stats) = handleGameEnd
                    LET e == endOfSong(gameNotes, stats) IN
                    /\ gameNotes' = e.gameNotes
                    /\ stats' = e.stats
                    /\ animationId' = FALSE
                    /\ audio' = IF audio.isLoaded
                                THEN stop(audio)
                                ELSE audio
                    /\ finalStats' = << e.stats >>
                    /\ gameState' = "finished"
                    /\ UNCHANGED << nextNoteIndex, lastHit, countdownNumber,
                                    countdownIntervalRef, song, rendered,
                                    inflight >>
               ELSE LET sp == spawnNotes(gameNotes, nextNoteIndex, t)
                        up == updateNotes(sp.gameNotes, stats, lastHit,
                                          deltaTime)
                    IN
                    /\ nextNoteIndex' = sp.nextNoteIndex
                    /\ gameNotes' = up.gameNotes
                    /\ stats' = up.stats
                    /\ lastHit' = up.lastHit
                    /\ UNCHANGED << managerVars, audio, animationId >>
  /\ UNCHANGED parserRef
  /\ UNCHANGED loaderVars
  /\ UNCHANGED shellVars

Next ==
  \/ LoadSong
  \/ LoadAudio
  \/ handleStartGame
  \/ handlePlayAgain
  \/ handleBackToMenu
  \/ CountdownTick
  \/ Render
  \/ PauseKey
  \/ ToggleSettles
  \/ LaneKey
  \/ Frame

Spec == Init /\ [][Next]_vars


(***************************************************************************)
(* The audio clock alone: useAudioPlayer under any sequence of the calls   *)
(* its callers make (play(0), pause, resume, stop, the calibration keys),  *)
(* with real time passing between them.                                    *)
(***************************************************************************)
\* audioPlayer.play(0), as the countdown calls it
ClockPlay ==
  /\ audio.isLoaded
  /\ audio' = play(audio, 0)
  /\ UNCHANGED << managerVars, engineVars, now >>
  /\ UNCHANGED parserRef
  /\ UNCHANGED loaderVars
  /\ UNCHANGED shellVars

\* audioPlayer.pause() of the last render, up to its await
ClockPause ==
  /\ audio.ctx /\ rendered.isPlaying
  /\ Len(inflight) < MaxInflight
  /\ Abs(getCurrentTime(audio)) <= MaxAudioNow
  /\ audio' = pauseBegin(audio)
  /\ inflight' = Append(inflight, "pause")
  /\ UNCHANGED << gameState, countdownNumber, countdownIntervalRef,
                  finalStats, song, rendered, engineVars, now >>
  /\ UNCHANGED parserRef
  /\ UNCHANGED loaderVars
  /\ UNCHANGED shellVars

\* audioPlayer.resume() of the last render, up to its await
ClockResume ==
  /\ audio.ctx /\ ~rendered.isPlaying
  /\ Len(inflight) < MaxInflight
  /\ inflight' = Append(inflight, "resume")
  /\ UNCHANGED << gameState, countdownNumber, countdownIntervalRef,
                  finalStats, song, rendered, audio, engineVars, now >>
  /\ UNCHANGED parserRef
  /\ UNCHANGED loaderVars
  /\ UNCHANGED shellVars

\* suspend() / resume() of the AudioContext resolves
ClockSettles ==
  /\ inflight # << >>
  /\ inflight' = Tail(inflight)
  /\ audio' = IF Head(inflight) = "pause" THEN pauseEnd(audio)
              ELSE resumeEnd(audio)
  /\ UNCHANGED << gameState, countdownNumber, countdownIntervalRef,
                  finalStats, song, rendered, engineVars, now >>
  /\ UNCHANGED parserRef
  /\ UNCHANGED loaderVars
  /\ UNCHANGED shellVars

ClockStop ==
  /\ audio.isLoaded
  /\ audio' = stop(audio)
  /\ UNCHANGED << managerVars, engineVars, now >>
  /\ UNCHANGED parserRef
  /\ UNCHANGED loaderVars
  /\ UNCHANGED shellVars

\* a variant of newOffset: the sum is not clamped
newOffsetUnclamped(currentOffset, delta) == currentOffset + delta

\* handleCalibrationChange: const newOffset = Math.max(-200, Math.min(200, ...))
newOffset(currentOffset, delta) ==
  Max(0 - CALIBRATION_LIMIT, Min(CALIBRATION_LIMIT, currentOffset + delta))

\* handleCalibrationChange(delta), called by the + and - keys
handleCalibrationChange ==
  /\ \E delta \in {CALIBRATION_STEP, 0 - CALIBRATION_STEP} :
       LET currentOffset == audio.calibrationOffsetRef
           newOffset2 == newOffset(currentOffset, delta)
       IN /\ Abs(newOffset2) <= MaxOffset
          /\ audio' = setCalibrationOffset(audio, newOffset2)
  /\ UNCHANGED << managerVars, engineVars, now >>
  /\ UNCHANGED parserRef
  /\ UNCHANGED loaderVars
  /\ UNCHANGED shellVars

\* real time passes
ClockTick ==
  /\ \E d \in AudioDeltas :
       /\ now + d <= MaxAudioNow
       /\ now' = now + d
       /\ audio' = advanceAudio(audio, d)
  /\ UNCHANGED << managerVars, engineVars >>
  /\ UNCHANGED parserRef
  /\ UNCHANGED loaderVars
  /\ UNCHANGED shellVars

NextAudio ==
  \/ LoadAudio
  \/ ClockPlay
  \/ ClockPause
  \/ ClockResume
  \/ ClockSettles
  \/ ClockStop
  \/ handleCalibrationChange
  \/ ClockTick
  \/ Render

SpecAudio == Init /\ [][NextAudio]_vars


(***************************************************************************)
(* The statistics alone: the two branches of checkHit applied to the       *)
(* stats of a session for any sequence of judged presses, whatever notes   *)
(* the search loop found.                                                  *)
(***************************************************************************)
\* the distances closestDistance takes: the centre and both sides of every
\* window edge
JudgedDistances ==
  {0, HIT_WINDOWS.perfect, HIT_WINDOWS.perfect + 1, HIT_WINDOWS.good,
   HIT_WINDOWS.good + 1, HIT_WINDOWS.ok}

\* checkHit with a note at closestDistance
JudgeHit ==
  /\ \E closestDistance \in JudgedDistances :
       LET h == hitBranch(stats, closestDistance) IN
       /\ IF h.lastHit.result = "perfect"
          THEN stats.perfects < MaxPerfects
          ELSE stats.goods + stats.oks + stats.misses < MaxOthers
       /\ stats' = h.stats
       /\ lastHit' = h.lastHit
  /\ UNCHANGED << managerVars, audio, gameNotes, nextNoteIndex, gameTime,
                  gameStartTimestamp, lastFrameTime, animationId, now >>
  /\ UNCHANGED parserRef
  /\ UNCHANGED loaderVars
  /\ UNCHANGED shellVars

\* checkHit with no note in reach
JudgeStray ==
  /\ stats.goods + stats.oks + stats.misses < MaxOthers
  /\ stats' = missBranch(stats).stats
  /\ lastHit' = missBranch(stats).lastHit
  /\ UNCHANGED << managerVars, audio, gameNotes, nextNoteIndex, gameTime,
                  gameStartTimestamp, lastFrameTime, animationId, now >>
  /\ UNCHANGED parserRef
  /\ UNCHANGED loaderVars
  /\ UNCHANGED shellVars

NextScore == JudgeHit \/ JudgeStray

SpecScore == Init /\ [][NextScore]_vars


(***************************************************************************)
(* The calibration keys during a session: the manager with the engine's    *)
(* frames and the key listener of the calibration effect.                  *)
(***************************************************************************)
\* the keydown listener of the calibration effect, registered by the last
\* render: + and - call handleCalibrationChange while that render's
\* gameState is playing or paused
CalibrationKey ==
  /\ rendered.gameState \in {"playing", "paused"}
  /\ \E delta \in {CALIBRATION_STEP, 0 - CALIBRATION_STEP} :
       audio' = setCalibrationOffset(
                  audio, newOffset(audio.calibrationOffsetRef, delta))
  /\ UNCHANGED << managerVars, engineVars, now >>
  /\ UNCHANGED parserRef
  /\ UNCHANGED loaderVars
  /\ UNCHANGED shellVars

NextCalib ==
  \/ LoadSong
  \/ LoadAudio
  \/ handleStartGame
  \/ CountdownTick
  \/ Render
  \/ Frame
  \/ CalibrationKey
  \/ handlePlayAgain
  \/ handleBackToMenu

SpecCalib == Init /\ [][NextCalib]_vars

(***************************************************************************)
(* Sustains.  The engine of the gameplay feature (useGameplay.hook) judges *)
(* held notes: a hit note with duracion > 0 becomes an active sustain of   *)
(* its lane; the release of the lane key, or gameTime reaching the end of  *)
(* the note, ends it.  Notes are spawned, moved and hit as in useGuitarGame*)
(***************************************************************************)
\* a variant of SUSTAIN_SCORING: three quarters of the note must be held
SUSTAIN_SCORING_ThreeQuarters ==
  [pointsPerSecond |-> 50, completionBonus |-> 25, minHoldPercent |-> 75]

\* minHoldPercent 0.5 is written as 50 (per cent)
SUSTAIN_SCORING ==
  [pointsPerSecond |-> 50, completionBonus |-> 25, minHoldPercent |-> 50]

\* the session is not advanced beyond MaxSustainTime
MaxSustainTime == 990

\* time between two frames: 110 units = 0.1 s
SustainDeltas == {110}

\* a held note in lane 0 (0.3 s .. 0.7 s), a tap in lane 1, a held note in
\* lane 2 that ends on a frame (0.2 s .. 0.5 s)
SongSustain ==
  [notes |-> << [segundo |-> 220, carril |-> 2, duracion |-> 330],
                [segundo |-> 330, carril |-> 0, duracion |-> 440],
                [segundo |-> 330, carril |-> 1, duracion |-> 0] >>,
   duration |-> 30 * SEC]

\* the runtime notes of a song with sustains: sustain is "none", "active",
\* "complete" or "released"
InitialSustainNotes(s) ==
  [i \in 1 .. Len(s.notes) |->
     [segundo |-> s.notes[i].segundo, carril |-> s.notes[i].carril,
      duracion |-> s.notes[i].duracion, sustain |-> "none",
      y |-> SPAWN_Y, spawned |-> FALSE, hit |-> FALSE, missed |-> FALSE]]

\* a variant of sustainOnHit: every hit note becomes an active sustain
sustainOnHitAnyNote(before, after) ==
  [i \in 1 .. Len(after) |->
     IF after[i].hit /\ ~before[i].hit
     THEN [after[i] EXCEPT !.sustain = "active"]
     ELSE after[i]]

\* judge on input: the note that the press has hit becomes an active
\* sustain when it has a duration
sustainOnHit(before, after) ==
  [i \in 1 .. Len(after) |->
     IF after[i].hit /\ ~before[i].hit /\ after[i].duracion > 0
     THEN [after[i] EXCEPT !.sustain = "active"]
     ELSE after[i]]

\* the active sustains of a lane
activeSustains(notes, lane) ==
  {i \in 1 .. Len(notes) :
     notes[i].carril = lane /\ notes[i].sustain = "active"}

\* the end of a held note
sustainEnd(note) == note.segundo + note.duracion

\* judge on release of one active sustain at gameTime t: complete with the
\* bonus at or after the end, released before it, and the combo is broken
\* when less than minHoldPercent of the duration was held
releaseSustain(note, st, t) ==
  IF t >= sustainEnd(note)
  THEN [note |-> [note EXCEPT !.sustain = "complete"],
        stats |-> [st EXCEPT !.score = st.score
                     + SUSTAIN_SCORING.completionBonus * getMultiplier(st.combo)]]
  ELSE [note |-> [note EXCEPT !.sustain = "released"],
        stats |-> IF 100 * (t - note.segundo)
                       < SUSTAIN_SCORING.minHoldPercent * note.duracion
                  THEN [st EXCEPT !.combo = 0]
                  ELSE st]

\* continuous sustain scoring of one frame: every active sustain earns
\* pointsPerSecond * deltaTime at the current multiplier, and one whose end
\* gameTime t has reached completes with the bonus
RECURSIVE scoreSustains(_, _, _, _, _)
scoreSustains(notes, st, deltaTime, t, i) ==
  IF i > Len(notes) THEN [gameNotes |-> notes, stats |-> st]
  ELSE IF notes[i].sustain # "active"
       THEN scoreSustains(notes, st, deltaTime, t, i + 1)
       ELSE LET held == ((SUSTAIN_SCORING.pointsPerSecond * deltaTime) \div SEC)
                         * getMultiplier(st.combo)
                done == t >= sustainEnd(notes[i])
                bonus == IF done
                         THEN SUSTAIN_SCORING.completionBonus
                              * getMultiplier(st.combo)
                         ELSE 0
            IN scoreSustains(
                 [notes EXCEPT ![i].sustain =
                                  IF done THEN "complete" ELSE "active"],
                 [st EXCEPT !.score = st.score + held + bonus],
                 deltaTime, t, i + 1)

\* the engine is playing the song with sustains; no frame has run yet
InitSustain ==
  /\ gameState = "playing"
  /\ countdownNumber = 0
  /\ countdownIntervalRef = FALSE
  /\ finalStats = << >>
  /\ song = << SongSustain >>
  /\ rendered = Snapshot("playing", InitialAudio)
  /\ inflight = << >>
  /\ audio = InitialAudio
  /\ gameNotes = InitialSustainNotes(SongSustain)
  /\ nextNoteIndex = 0
  /\ stats = InitialStats
  /\ lastHit = InitialLastHit
  /\ gameTime = 0
  /\ gameStartTimestamp = << >>
  /\ lastFrameTime = 0
  /\ animationId = TRUE
  /\ now = 0
  /\ parserRef = NoParser
  /\ loader = NewLoader
  /\ parse = NoParse
  /\ profilesState = EmptyStore
  /\ scoreSavedRef = FALSE
  /\ timers = << >>

\* one frame: spawn, advance, continuous sustain scoring
SustainFrame ==
  /\ \E d \in SustainDeltas :
       LET t == gameTime + d
           sp == spawnNotes(gameNotes, nextNoteIndex, t)
           up == updateNotes(sp.gameNotes, stats, lastHit, d)
           sc == scoreSustains(up.gameNotes, up.stats, d, t, 1)
       IN
       /\ t <= MaxSustainTime
       /\ now' = now + d
       /\ lastFrameTime' = now + d
       /\ gameTime' = t
       /\ nextNoteIndex' = sp.nextNoteIndex
       /\ gameNotes' = sc.gameNotes
       /\ stats' = sc.stats
       /\ lastHit' = up.lastHit
  /\ UNCHANGED << managerVars, audio, gameStartTimestamp, animationId >>
  /\ UNCHANGED parserRef
  /\ UNCHANGED loaderVars
  /\ UNCHANGED shellVars

\* LanePressed: the key of a lane that is not being held goes down
LanePressed ==
  /\ stats.misses < MaxMisses
  /\ \E lane \in KEY_TO_LANE :
       /\ activeSustains(gameNotes, lane) = {}
       /\ LET r == checkHit(gameNotes, stats, lane) IN
          /\ gameNotes' = sustainOnHit(gameNotes, r.gameNotes)
          /\ stats' = r.stats
          /\ lastHit' = r.lastHit
  /\ UNCHANGED << managerVars, audio, nextNoteIndex, gameTime,
                  gameStartTimestamp, lastFrameTime, animationId, now >>
  /\ UNCHANGED parserRef
  /\ UNCHANGED loaderVars
  /\ UNCHANGED shellVars

\* LaneReleased: the key of a lane with an active sustain goes up
LaneReleased ==
  /\ \E lane \in KEY_TO_LANE :
       /\ activeSustains(gameNotes, lane) # {}
       /\ LET i == CHOOSE k \in activeSustains(gameNotes, lane) : TRUE
              r == releaseSustain(gameNotes[i], stats, gameTime)
          IN /\ gameNotes' = [gameNotes EXCEPT ![i] = r.note]
             /\ stats' = r.stats
  /\ UNCHANGED << managerVars, audio, nextNoteIndex, lastHit, gameTime,
                  gameStartTimestamp, lastFrameTime, animationId, now >>
  /\ UNCHANGED parserRef
  /\ UNCHANGED loaderVars
  /\ UNCHANGED shellVars

NextSustain == SustainFrame \/ LanePressed \/ LaneReleased

\* the frames keep coming while the session plays
SpecSustain == InitSustain /\ [][NextSustain]_vars /\ WF_vars(SustainFrame)

(***************************************************************************)
(* ChartParser.  Seconds are counted in milliseconds, the resolution of    *)
(* toFixed(3); BPM values are whole (the file's micro-BPM / 1000).         *)
(***************************************************************************)
\* parseFloat((num / den).toFixed(3)) of a quotient in milliseconds, den > 0
toFixed3(num, den) ==
  IF num >= 0 THEN (2 * num + den) \div (2 * den)
  ELSE 0 - ((2 * (0 - num) + den) \div (2 * den))

\* new ChartParser(): resolution 192, no BPM change, no notes
NewChartParser ==
  [kind |-> "chart", resolution |-> 192, bpmTrack |-> << >>,
   difficulties |-> [easy |-> << >>, medium |-> << >>, hard |-> << >>,
                     expert |-> << >>],
   metadata |-> [songName |-> "Unknown Song", artist |-> "Unknown Artist",
                 charter |-> "", chartDifficulty |-> 0],
   lines |-> 0, parsed |-> FALSE]

\* number of [SyncTrack] lines and of note lines of a chart file
MaxSyncLines == 2
MaxNoteLines == 2

\* the [SyncTrack] lines "beat = B microBPM" a file is made of
ChartSyncLines ==
  {[beat |-> 0, bpm |-> 120], [beat |-> 192, bpm |-> 90],
   [beat |-> 192, bpm |-> 240]}

\* the note lines "beat = N carril sustainBeats" a file is made of
ChartNoteLines ==
  {[beat |-> 144, carril |-> 2, sustainBeats |-> 0],
   [beat |-> 192, carril |-> 0, sustainBeats |-> 96],
   [beat |-> 192, carril |-> 2, sustainBeats |-> 0],
   [beat |-> 384, carril |-> 1, sustainBeats |-> 192],
   [beat |-> 144, carril |-> 6, sustainBeats |-> 0]}

\* the note sections a file has
ChartSections == {"easy", "expert"}

\* the loop of beatsToSeconds and of beatsDurationToSeconds: the BPM of the
\* last change at or before beat, from entry i on, until the first later one
RECURSIVE activeBPM(_, _, _, _)
activeBPM(bpmTrack, beat, i, bpm) ==
  IF i > Len(bpmTrack) THEN bpm
  ELSE IF bpmTrack[i].beat <= beat
       THEN activeBPM(bpmTrack, beat, i + 1, bpmTrack[i].bpm)
       ELSE bpm

\* ChartParser.beatsToSeconds, in milliseconds
beatsToSeconds(p, beat) ==
  toFixed3(beat * 60000, p.resolution * activeBPM(p.bpmTrack, beat, 1, 120))

\* ChartParser.beatsDurationToSeconds, in milliseconds
beatsDurationToSeconds(p, startBeat, durationBeats) ==
  IF durationBeats = 0 THEN 0
  ELSE toFixed3(durationBeats * 60000,
                p.resolution * activeBPM(p.bpmTrack, startBeat, 1, 120))

\* Array.prototype.sort with (a, b) => a.segundo - b.segundo, which is
\* stable: x goes behind the notes that are not later than x
insertBySegundo(sorted, x) ==
  LET k == Cardinality({i \in DOMAIN sorted : sorted[i].segundo <= x.segundo})
  IN SubSeq(sorted, 1, k) \o << x >> \o SubSeq(sorted, k + 1, Len(sorted))

RECURSIVE sortBySegundo(_)
sortBySegundo(notes) ==
  IF notes = << >> THEN << >>
  ELSE insertBySegundo(sortBySegundo(SubSeq(notes, 1, Len(notes) - 1)),
                       notes[Len(notes)])

\* Math.max(...notes.map((n) => n.beat))
lastBeat(notes) ==
  CHOOSE b \in {notes[i].beat : i \in DOMAIN notes} :
    \A i \in DOMAIN notes : notes[i].beat <= b

\* parseFloat(duration.toFixed(2)) of a duration in milliseconds
toFixed2(ms) == 10 * toFixed3(ms, 10)

\* the 5 seconds added to the time of the last note
DURATION_BUFFER == 5000

\* ChartParser.convertToSongData: << >> for null
chartConvertToSongData(p, difficulty) ==
  LET notes == p.difficulties[difficulty] IN
  IF notes = << >> THEN << >>
  ELSE LET songNotes ==
             [i \in DOMAIN notes |->
                [segundo |-> beatsToSeconds(p, notes[i].beat),
                 carril |-> notes[i].carril,
                 duracion |-> beatsDurationToSeconds(
                                p, notes[i].beat, notes[i].sustainBeats)]]
           duration == beatsToSeconds(p, lastBeat(notes)) + DURATION_BUFFER
       IN << [notes |-> sortBySegundo(songNotes),
              songName |-> p.metadata.songName,
              artist |-> p.metadata.artist,
              charter |-> p.metadata.charter,
              chartDifficulty |-> p.metadata.chartDifficulty,
              duration |-> toFixed2(duration),
              totalNotes |-> Len(songNotes),
              difficulty |-> difficulty] >>

\* getAvailableDifficulties, and the last of them, which the loader converts
DifficultyOrder == << "easy", "medium", "hard", "expert" >>

\* the names of the difficulties of a set of indices, in that order
difficultyList(available) ==
  LET RECURSIVE pick(_)
      pick(i) == IF i > Len(DifficultyOrder) THEN << >>
                 ELSE (IF i \in available THEN << DifficultyOrder[i] >>
                       ELSE << >>) \o pick(i + 1)
  IN pick(1)

chartAvailableDifficulties(p) ==
  {i \in DOMAIN DifficultyOrder : p.difficulties[DifficultyOrder[i]] # << >>}

\* loadFromFile of a .chart file, up to new ChartParser() in loadChartFile
loadChartFile ==
  /\ parserRef = NoParser /\ song = << >> /\ ~loader.isLoading
  /\ parse = NoParse
  /\ parserRef' = NewChartParser
  /\ loader' = [loader EXCEPT !.isLoading = TRUE, !.error = ""]
  /\ UNCHANGED << managerVars, audio, engineVars, now, parse >>
  /\ UNCHANGED shellVars

\* parse: a line of [SyncTrack]
parseSyncTrack ==
  /\ parserRef.kind = "chart" /\ ~parserRef.parsed
  /\ Len(parserRef.bpmTrack) < MaxSyncLines
  /\ \E line \in ChartSyncLines :
       parserRef' = [parserRef EXCEPT !.bpmTrack = Append(@, line)]
  /\ UNCHANGED << managerVars, audio, engineVars, now, loaderVars >>
  /\ UNCHANGED shellVars

\* parse: a line of a note section; carril 5 and above is dropped
parseNote ==
  /\ parserRef.kind = "chart" /\ ~parserRef.parsed
  /\ parserRef.lines < MaxNoteLines
  /\ \E line \in ChartNoteLines, difficulty \in ChartSections :
       parserRef' =
         [parserRef EXCEPT
            !.lines = @ + 1,
            !.difficulties[difficulty] =
               IF line.carril < 5 THEN Append(@, line) ELSE @]
  /\ UNCHANGED << managerVars, audio, engineVars, now, loaderVars >>
  /\ UNCHANGED shellVars

\* loadChartFile after parse: the hardest difficulty that has notes becomes
\* the song; a file without notes is rejected and loadFromFile sets null
chartLoaded ==
  /\ parserRef.kind = "chart" /\ ~parserRef.parsed
  /\ parserRef' = [parserRef EXCEPT !.parsed = TRUE]
  /\ LET available == chartAvailableDifficulties(parserRef) IN
     IF available = {}
     THEN /\ song' = << >>
          /\ loader' = [loader EXCEPT
                          !.availableDifficulties = << >>,
                          !.error = "No se encontraron notas en el archivo .chart",
                          !.isLoading = FALSE]
     ELSE LET last == CHOOSE i \in available : \A j \in available : j <= i
          IN /\ song' = chartConvertToSongData(parserRef,
                                               DifficultyOrder[last])
             /\ loader' = [loader EXCEPT
                             !.availableDifficulties =
                                difficultyList(available),
                             !.isLoading = FALSE]
  /\ UNCHANGED << gameState, countdownNumber, countdownIntervalRef,
                  finalStats, rendered, inflight, audio, engineVars, now,
                  parse >>
  /\ UNCHANGED shellVars

(***************************************************************************)
(* MidiParser.  A file is its tracks, a track its name and its events in   *)
(* file order, each with its delta time.  Tempos are in microseconds per   *)
(* beat, seconds in milliseconds.                                          *)
(***************************************************************************)
Tempo(d, t) == [delta |-> d, type |-> "tempo", tempo |-> t]
On(d, n) == [delta |-> d, type |-> "note", status |-> 144, note |-> n,
             velocity |-> 100]
Off(d, n) == [delta |-> d, type |-> "note", status |-> 128, note |-> n,
              velocity |-> 0]

\* tempo tracks: none; 120 then 90 BPM; 120 then 240 BPM; a first change at
\* tick 384
MidiTempoTracks ==
  {<< >>,
   << Tempo(0, 500000), Tempo(192, 666667) >>,
   << Tempo(0, 500000), Tempo(192, 250000) >>,
   << Tempo(384, 666667) >>}

\* guitar tracks: two notes one after the other; two notes at one tick,
\* lane 2 first; a track with a tempo change of its own; a note closed at
\* its own tick, a note struck twice and a note left open; no note of any
\* difficulty; an expert note and a Note Off of the easy range that no Note
\* On precedes; such a Note Off alone
MidiGuitarTracks ==
  {<< On(96, 96), Off(96, 96), On(0, 98), Off(192, 98) >>,
   << On(192, 98), On(0, 96), Off(96, 98), Off(0, 96) >>,
   << Tempo(0, 250000), On(192, 96), Off(192, 96), On(0, 98), Off(96, 98) >>,
   << On(96, 96), Off(0, 96), On(96, 98), On(96, 98), Off(96, 98),
      On(0, 100) >>,
   << On(0, 40), Off(96, 40) >>,
   << On(0, 96), Off(96, 96), Off(0, 60) >>,
   << Off(96, 96) >>}

MidiFiles ==
  {<< [name |-> "", events |-> t], [name |-> "PART GUITAR", events |-> g] >> :
     t \in MidiTempoTracks, g \in MidiGuitarTracks}

\* new MidiParser(arrayBuffer): the file, the position in it (track 0 is the
\* header; then track and event),
\* the tick of the track being read and its note events; guitar is
\* tracks.get('PART GUITAR'), << >> when the map has no such track
NewMidiParser(file) ==
  [kind |-> "midi", file |-> file, track |-> 0, pos |-> 1,
   resolution |-> 480, tempoTrack |-> << >>,
   currentTick |-> 0, events |-> << >>,
   guitar |-> << >>, parsed |-> FALSE]

\* the resolution in the header of the files
MIDI_RESOLUTION == 192

\* GUITAR_NOTE_MAP[difficulty][note]: the lane, -1 for undefined
noteMap(difficulty, note) ==
  LET base == IF difficulty = "easy" THEN 60
              ELSE IF difficulty = "medium" THEN 72
              ELSE IF difficulty = "hard" THEN 84 ELSE 96
  IN IF note >= base /\ note <= base + 4 THEN note - base ELSE 0 - 1

\* the loop of ticksToSeconds from tempo event i on: the ticks x microseconds
\* summed so far, lastTick and currentTempo when the loop ends or breaks
RECURSIVE tempoLoop(_, _, _, _)
tempoLoop(tempoTrack, tick, i, acc) ==
  IF i > Len(tempoTrack) \/ tempoTrack[i].tick > tick THEN acc
  ELSE tempoLoop(tempoTrack, tick, i + 1,
         [sum |-> acc.sum + (tempoTrack[i].tick - acc.lastTick)
                              * acc.currentTempo,
          lastTick |-> tempoTrack[i].tick,
          currentTempo |-> tempoTrack[i].tempo])

\* a variant of ticksToSeconds: a segment is counted at the tempo that its
\* end sets, not at the tempo that was active in it
ticksToSecondsNewTempo(p, tick) ==
  LET acc == tempoLoop(p.tempoTrack, tick, 1,
                       [sum |-> 0, lastTick |-> 0, currentTempo |-> 500000])
  IN toFixed3(tick * acc.currentTempo, p.resolution * 1000)

\* MidiParser.ticksToSeconds, in milliseconds
ticksToSeconds(p, tick) ==
  IF p.tempoTrack = << >> THEN toFixed3(tick * 500, p.resolution)
  ELSE LET acc == tempoLoop(p.tempoTrack, tick, 1,
                    [sum |-> 0, lastTick |-> 0, currentTempo |-> 500000])
       IN toFixed3(acc.sum + (tick - acc.lastTick) * acc.currentTempo,
                   p.resolution * 1000)

\* MidiParser.ticksDurationToSeconds
ticksDurationToSeconds(p, startTick, durationTicks) ==
  ticksToSeconds(p, startTick + durationTicks) - ticksToSeconds(p, startTick)

\* activeNotes (a Map in insertion order) as a sequence of [note, startTick]
activeIndex(active, note) ==
  {i \in DOMAIN active : active[i].note = note}

activeSet(active, note, tick) ==
  IF activeIndex(active, note) = {}
  THEN Append(active, [note |-> note, startTick |-> tick])
  ELSE [i \in DOMAIN active |->
          IF active[i].note = note THEN [active[i] EXCEPT !.startTick = tick]
          ELSE active[i]]

activeDelete(active, note) ==
  LET keep == {i \in DOMAIN active : active[i].note # note}
      RECURSIVE pick(_)
      pick(i) == IF i > Len(active) THEN << >>
                 ELSE (IF i \in keep THEN << active[i] >> ELSE << >>)
                      \o pick(i + 1)
  IN pick(1)

\* a variant of extractEvent that emits a note of no length for a Note Off
\* at the tick of its Note On
extractEventZeroLength(p, difficulty, event, st) ==
  LET carril == noteMap(difficulty, event.note)
      idx == activeIndex(st.active, event.note)
      start == IF idx = {} THEN 0 - 1
               ELSE st.active[CHOOSE i \in idx : TRUE].startTick
  IN
  IF carril < 0 THEN st
  ELSE IF event.isOn
  THEN [notes |-> IF idx # {} /\ start < event.tick
                  THEN Append(st.notes, [tick |-> start, carril |-> carril,
                                         duration |-> event.tick - start])
                  ELSE st.notes,
        active |-> activeSet(st.active, event.note, event.tick)]
  ELSE IF idx = {} THEN st
  ELSE [notes |-> IF event.tick >= start
                  THEN Append(st.notes, [tick |-> start, carril |-> carril,
                                         duration |-> event.tick - start])
                  ELSE st.notes,
        active |-> activeDelete(st.active, event.note)]

\* extractNotes, one pass of the loop over the events of the track
extractEvent(p, difficulty, event, st) ==
  LET carril == noteMap(difficulty, event.note)
      idx == activeIndex(st.active, event.note)
      start == IF idx = {} THEN 0 - 1
               ELSE st.active[CHOOSE i \in idx : TRUE].startTick
  IN
  IF carril < 0 THEN st
  ELSE IF event.isOn
  THEN [notes |-> IF idx # {} /\ start < event.tick
                  THEN Append(st.notes, [tick |-> start, carril |-> carril,
                                         duration |-> event.tick - start])
                  ELSE st.notes,
        active |-> activeSet(st.active, event.note, event.tick)]
  ELSE IF idx = {} THEN st
  ELSE [notes |-> IF event.tick > start
                  THEN Append(st.notes, [tick |-> start, carril |-> carril,
                                         duration |-> event.tick - start])
                  ELSE IF event.tick = start
                  THEN Append(st.notes,
                         [tick |-> start, carril |-> carril,
                          duration |-> Max(1, p.resolution \div 8)])
                  ELSE st.notes,
        active |-> activeDelete(st.active, event.note)]

RECURSIVE extractLoop(_, _, _, _, _)
extractLoop(p, difficulty, events, i, st) ==
  IF i > Len(events) THEN st
  ELSE extractLoop(p, difficulty, events, i + 1,
                   extractEvent(p, difficulty, events[i], st))

\* extractNotes, the notes still open at the end of the track
RECURSIVE closeOpenNotes(_, _, _, _, _)
closeOpenNotes(difficulty, active, lastTick, i, notes) ==
  IF i > Len(active) THEN notes
  ELSE closeOpenNotes(difficulty, active, lastTick, i + 1,
         IF noteMap(difficulty, active[i].note) >= 0
         THEN Append(notes,
                [tick |-> active[i].startTick,
                 carril |-> noteMap(difficulty, active[i].note),
                 duration |-> Max(1, lastTick - active[i].startTick)])
         ELSE notes)

\* notes.sort((a, b) => a.tick - b.tick), which is stable
insertByTick(sorted, x) ==
  LET k == Cardinality({i \in DOMAIN sorted : sorted[i].tick <= x.tick})
  IN SubSeq(sorted, 1, k) \o << x >> \o SubSeq(sorted, k + 1, Len(sorted))

RECURSIVE sortByTick(_)
sortByTick(notes) ==
  IF notes = << >> THEN << >>
  ELSE insertByTick(sortByTick(SubSeq(notes, 1, Len(notes) - 1)),
                    notes[Len(notes)])

\* MidiParser.extractNotes for the track 'PART GUITAR'
extractNotes(p, difficulty) ==
  IF p.guitar = << >> THEN << >>
  ELSE LET events == p.guitar[1]
           st == extractLoop(p, difficulty, events, 1,
                             [notes |-> << >>, active |-> << >>])
           closed == IF st.active # << >> /\ events # << >>
                     THEN closeOpenNotes(difficulty, st.active,
                                         events[Len(events)].tick, 1, st.notes)
                     ELSE st.notes
       IN sortByTick(closed)

\* metadata?.field || fallback
orElse(value, fallback) == IF value = "" THEN fallback ELSE value

\* MidiParser.convertToSongData: << >> for null
midiConvertToSongData(p, difficulty, metadata) ==
  LET notes == extractNotes(p, difficulty) IN
  IF notes = << >> THEN << >>
  ELSE LET lastNote == notes[Len(notes)]
           duration == ticksToSeconds(p, lastNote.tick + lastNote.duration)
                         + DURATION_BUFFER
       IN << [notes |->
                [i \in DOMAIN notes |->
                   [segundo |-> ticksToSeconds(p, notes[i].tick),
                    carril |-> notes[i].carril,
                    duracion |-> ticksDurationToSeconds(
                                   p, notes[i].tick, notes[i].duration)]],
              songName |-> orElse(metadata.songName, "Unknown Song"),
              artist |-> orElse(metadata.artist, "Unknown Artist"),
              charter |-> orElse(metadata.charter, ""),
              chartDifficulty |-> metadata.chartDifficulty,
              duration |-> toFixed2(duration),
              totalNotes |-> Len(notes),
              difficulty |-> difficulty] >>

\* MidiParser.getAvailableDifficulties for 'PART GUITAR', as indices of
\* DifficultyOrder
midiAvailableDifficulties(p) ==
  IF p.guitar = << >> THEN {}
  ELSE {i \in DOMAIN DifficultyOrder :
          \E k \in DOMAIN p.guitar[1] :
             noteMap(DifficultyOrder[i], p.guitar[1][k].note) >= 0}

\* the event at the position of the parser
midiReading(p) ==
  /\ p.kind = "midi" /\ ~p.parsed
  /\ p.track \in DOMAIN p.file
  /\ p.pos \in DOMAIN p.file[p.track].events

midiEvent(p) == p.file[p.track].events[p.pos]

\* loadMidiFile: new MidiParser(arrayBuffer) for the bytes of the file
loadMidiFile ==
  /\ parserRef = NoParser /\ song = << >> /\ ~loader.isLoading
  /\ parse = NoParse
  /\ \E file \in MidiFiles : parserRef' = NewMidiParser(file)
  /\ loader' = [loader EXCEPT !.isLoading = TRUE, !.error = ""]
  /\ UNCHANGED << managerVars, audio, engineVars, now, parse >>
  /\ UNCHANGED shellVars

\* parseHeader: the resolution of the file replaces the default
parseHeader ==
  /\ parserRef.kind = "midi" /\ ~parserRef.parsed /\ parserRef.track = 0
  /\ parserRef' = [parserRef EXCEPT !.resolution = MIDI_RESOLUTION,
                                    !.track = 1]
  /\ UNCHANGED << managerVars, audio, engineVars, now, loaderVars >>
  /\ UNCHANGED shellVars

\* parseTrack, a Set Tempo meta event: pushed to the tempo track of the file
\* at the tick of the track being read
parseSetTempo ==
  /\ midiReading(parserRef)
  /\ midiEvent(parserRef).type = "tempo"
  /\ LET currentTick == parserRef.currentTick + midiEvent(parserRef).delta IN
     parserRef' =
       [parserRef EXCEPT
          !.currentTick = currentTick,
          !.tempoTrack = Append(@, [tick |-> currentTick,
                                    tempo |-> midiEvent(parserRef).tempo]),
          !.pos = @ + 1]
  /\ UNCHANGED << managerVars, audio, engineVars, now, loaderVars >>
  /\ UNCHANGED shellVars

\* parseTrack, a Note On or a Note Off event
parseNoteEvent ==
  /\ midiReading(parserRef)
  /\ midiEvent(parserRef).type = "note"
  /\ LET currentTick == parserRef.currentTick + midiEvent(parserRef).delta
         event == midiEvent(parserRef)
     IN
     parserRef' =
       [parserRef EXCEPT
          !.currentTick = currentTick,
          !.events = Append(@, [tick |-> currentTick, note |-> event.note,
                                velocity |-> event.velocity,
                                isOn |-> IF event.status = 144
                                         THEN event.velocity > 0
                                         ELSE FALSE]),
          !.pos = @ + 1]
  /\ UNCHANGED << managerVars, audio, engineVars, now, loaderVars >>
  /\ UNCHANGED shellVars

\* parseTrack, the end of the track: a named track is stored under its name
endOfTrack ==
  /\ parserRef.kind = "midi" /\ ~parserRef.parsed
  /\ parserRef.track \in DOMAIN parserRef.file
  /\ parserRef.pos > Len(parserRef.file[parserRef.track].events)
  /\ parserRef' =
       [parserRef EXCEPT
          !.guitar = IF parserRef.file[parserRef.track].name = "PART GUITAR"
                     THEN << parserRef.events >> ELSE @,
          !.track = @ + 1, !.pos = 1, !.currentTick = 0, !.events = << >>]
  /\ UNCHANGED << managerVars, audio, engineVars, now, loaderVars >>
  /\ UNCHANGED shellVars

\* the metadata loadMidiFile is called with: that of song.ini when
\* loadFromFolder calls, none when loadFromFile calls
loadMetadata ==
  IF parse.kind = "folder" THEN parse.metadata ELSE NoMetadata

\* loadMidiFile after parse: the hardest difficulty that has notes becomes
\* the song; a file without guitar notes is rejected and loadFromFile sets
\* null
midiLoaded ==
  /\ parserRef.kind = "midi" /\ ~parserRef.parsed
  /\ parserRef.track > Len(parserRef.file)
  /\ parserRef' = [parserRef EXCEPT !.parsed = TRUE]
  /\ LET available == midiAvailableDifficulties(parserRef) IN
     IF available = {}
     THEN /\ song' = << >>
          /\ loader' = [loader EXCEPT
                          !.metadataRef = loadMetadata,
                          !.availableDifficulties = << >>,
                          !.error = "No se encontraron notas de guitarra en el archivo MIDI",
                          !.isLoading = FALSE]
     ELSE LET last == CHOOSE i \in available : \A j \in available : j <= i
              songData == midiConvertToSongData(parserRef,
                                                DifficultyOrder[last],
                                                loadMetadata)
          IN /\ song' = songData
             /\ loader' = [loader EXCEPT
                             !.metadataRef = loadMetadata,
                             !.availableDifficulties =
                                difficultyList(available),
                             !.error =
                                IF songData = << >>
                                THEN "Error al convertir las notas MIDI"
                                ELSE @,
                             !.isLoading = FALSE]
  /\ UNCHANGED << gameState, countdownNumber, countdownIntervalRef,
                  finalStats, rendered, inflight, audio, engineVars, now,
                  parse >>
  /\ UNCHANGED shellVars

\* parserRef.current.convertToSongData
convertToSongData(p, difficulty, metadata) ==
  IF p.kind = "chart" THEN chartConvertToSongData(p, difficulty)
  ELSE midiConvertToSongData(p, difficulty, metadata)

\* useSongLoader.changeDifficulty
changeDifficulty ==
  /\ IF parserRef = NoParser THEN TRUE ELSE parserRef.parsed
  /\ \E i \in DOMAIN DifficultyOrder :
       IF parserRef = NoParser
       THEN /\ loader' = [loader EXCEPT !.error = "No hay cancion cargada"]
            /\ UNCHANGED song
       ELSE LET songData == convertToSongData(parserRef, DifficultyOrder[i],
                                              loader.metadataRef)
            IN IF songData # << >>
               THEN /\ song' = songData
                    /\ loader' = [loader EXCEPT !.error = ""]
               ELSE /\ loader' = [loader EXCEPT
                                    !.error = "Error al cargar dificultad"]
                    /\ UNCHANGED song
  /\ UNCHANGED parserRef
  /\ UNCHANGED << gameState, countdownNumber, countdownIntervalRef,
                  finalStats, rendered, inflight, audio, engineVars, now,
                  parse >>
  /\ UNCHANGED shellVars

\* useSongLoader.clearSong
clearSong ==
  /\ IF parserRef = NoParser THEN TRUE ELSE parserRef.parsed
  /\ song' = << >>
  /\ parserRef' = NoParser
  /\ loader' = [loader EXCEPT !.error = "", !.metadataRef = NoMetadata,
                              !.availableDifficulties = << >>]
  /\ UNCHANGED << gameState, countdownNumber, countdownIntervalRef,
                  finalStats, rendered, inflight, audio, engineVars, now,
                  parse >>
  /\ UNCHANGED shellVars

NextParser ==
  \/ loadChartFile \/ parseSyncTrack \/ parseNote \/ chartLoaded
  \/ loadMidiFile \/ parseHeader \/ parseSetTempo \/ parseNoteEvent
  \/ endOfTrack \/ midiLoaded
  \/ changeDifficulty \/ clearSong

SpecParser == Init /\ [][NextParser]_vars

(***************************************************************************)
(* ChartParser.parse on the text of a file.  A line is the sequence of its *)
(* tokens (what white space separates, "=" being a token of its own): a    *)
(* number is Num(n), anything else Sym(s).  A regular expression of the    *)
(* parser is the sequence of the tokens it asks for, "#" standing for      *)
(* (\d+), and it matches anywhere in the line, as the unanchored           *)
(* expressions of the source do.                                           *)
(***************************************************************************)
Num(n) == [sym |-> "", num |-> n]
Sym(s) == [sym |-> s, num |-> 0 - 1]

Section(name) == << Sym("["), Sym(name), Sym("]") >>

\* the lines of [Song]: a resolution, a name, a key without value, a value
\* without key
SongTextLines ==
  {<< Sym("Resolution"), Sym("="), Num(96) >>,
   << Sym("Name"), Sym("="), Sym("Song") >>,
   << Sym("Resolution") >>,
   << Sym("="), Num(96) >>}

\* the lines of [SyncTrack]: two tempo changes, a time signature, a line
\* that lost its tick
SyncTextLines ==
  {<< Num(0), Sym("="), Sym("B"), Num(120000) >>,
   << Num(192), Sym("="), Sym("B"), Num(90000) >>,
   << Num(0), Sym("="), Sym("TS"), Num(4) >>,
   << Sym("="), Sym("B"), Num(90000) >>}

\* the lines of a note section: lane 6, lane 2 with a sustain, lane 0, a
\* note without its sustain field, a star power phrase, an event, text
\* around a note, a brace, the header of a section the parser does not know
NoteTextLines ==
  {<< Num(100), Sym("="), Sym("N"), Num(6), Num(0) >>,
   << Num(200), Sym("="), Sym("N"), Num(2), Num(480) >>,
   << Num(192), Sym("="), Sym("N"), Num(0), Num(0) >>,
   << Num(192), Sym("="), Sym("N"), Num(2) >>,
   << Num(192), Sym("="), Sym("S"), Num(2), Num(96) >>,
   << Num(192), Sym("="), Sym("E"), Sym("solo") >>,
   << Sym("x"), Num(192), Sym("="), Sym("N"), Num(1), Num(0), Sym("y") >>,
   << Sym("}") >>,
   Section("Events")}

\* the texts of the files
ChartTexts ==
  {<< Section("SyncTrack"), t, Section("ExpertSingle"), a, b,
      Section("EasySingle"), c >> :
     t \in SyncTextLines, a \in NoteTextLines, b \in NoteTextLines,
     c \in NoteTextLines}
  \cup
  {<< Section("Song"), m, << >>, Section("MediumSingle"), a >> :
     m \in SongTextLines, a \in NoteTextLines}

\* line.match(pattern): the offset of the leftmost match, 0 for null
regexMatch(line, pattern) ==
  LET offsets ==
        {i \in DOMAIN line :
           /\ i + Len(pattern) - 1 <= Len(line)
           /\ \A k \in DOMAIN pattern :
                IF pattern[k] = "#" THEN line[i + k - 1].sym = ""
                ELSE line[i + k - 1].sym = pattern[k]}
  IN IF offsets = {} THEN 0
     ELSE CHOOSE i \in offsets : \A j \in offsets : i <= j

\* /(\d+)\s*=\s*B\s+(\d+)/ and /(\d+)\s*=\s*N\s+(\d+)\s+(\d+)/
SyncPattern == << "#", "=", "B", "#" >>
NotePattern == << "#", "=", "N", "#", "#" >>

\* /(\w+)\s*=\s*"?([^"]+)"?/: a word, "=", and a value
songMatch(line) ==
  LET offsets ==
        {i \in DOMAIN line :
           /\ i + 2 <= Len(line)
           /\ line[i].sym \notin {"=", "{", "}", "[", "]"}
           /\ line[i + 1].sym = "="}
  IN IF offsets = {} THEN 0
     ELSE CHOOSE i \in offsets : \A j \in offsets : i <= j

\* ChartParser.parseSongMetadata on a line of [Song]
parseSongMetadata(p, line) ==
  LET i == songMatch(line) IN
  IF i = 0 THEN p
  ELSE IF line[i].sym = "Name"
       THEN [p EXCEPT !.metadata.songName = line[i + 2].sym]
  ELSE IF line[i].sym = "Artist"
       THEN [p EXCEPT !.metadata.artist = line[i + 2].sym]
  ELSE IF line[i].sym = "Charter"
       THEN [p EXCEPT !.metadata.charter = line[i + 2].sym]
  ELSE IF line[i].sym = "Difficulty"
       THEN [p EXCEPT !.metadata.chartDifficulty = line[i + 2].num]
  ELSE IF line[i].sym = "Resolution"
       THEN [p EXCEPT !.resolution = line[i + 2].num]
  ELSE p

\* ChartParser.parseSyncTrack on a line of [SyncTrack]
parseSyncTrackLine(p, line) ==
  LET i == regexMatch(line, SyncPattern) IN
  IF i = 0 THEN p
  ELSE [p EXCEPT !.bpmTrack =
          Append(@, [beat |-> line[i].num, bpm |-> line[i + 3].num \div 1000])]

\* a variant of parseNoteLine that keeps every lane
parseNoteLineAnyLane(p, line, difficulty) ==
  LET i == regexMatch(line, NotePattern) IN
  IF i = 0 THEN p
  ELSE [p EXCEPT !.difficulties[difficulty] =
          Append(@, [beat |-> line[i].num, carril |-> line[i + 3].num,
                     sustainBeats |-> line[i + 4].num])]

\* ChartParser.parseNote on a line of a note section
parseNoteLine(p, line, difficulty) ==
  LET i == regexMatch(line, NotePattern) IN
  IF i = 0 THEN p
  ELSE IF line[i + 3].num < 5
       THEN [p EXCEPT !.difficulties[difficulty] =
               Append(@, [beat |-> line[i].num, carril |-> line[i + 3].num,
                          sustainBeats |-> line[i + 4].num])]
       ELSE p

\* trimmed.startsWith('[') && trimmed.endsWith(']'), and trimmed.slice(1, -1)
isSectionLine(line) ==
  /\ line # << >>
  /\ line[1].sym = "[" /\ line[Len(line)].sym = "]"

sectionName(line) == IF Len(line) = 3 THEN line[2].sym ELSE "?"

\* the difficulty of a note section, "" for any other section
sectionDifficulty(section) ==
  IF section = "EasySingle" THEN "easy"
  ELSE IF section = "MediumSingle" THEN "medium"
  ELSE IF section = "HardSingle" THEN "hard"
  ELSE IF section = "ExpertSingle" THEN "expert"
  ELSE ""

\* a variant of chartParseLine in which a line that is no note ends the
\* note section
chartParseLineEndsSection(st, line) ==
  IF isSectionLine(line)
  THEN [st EXCEPT !.currentSection = sectionName(line)]
  ELSE IF line = << >> \/ line = << Sym("{") >> \/ line = << Sym("}") >>
  THEN st
  ELSE IF st.currentSection = "Song"
  THEN [st EXCEPT !.parser = parseSongMetadata(@, line)]
  ELSE IF st.currentSection = "SyncTrack"
  THEN [st EXCEPT !.parser = parseSyncTrackLine(@, line)]
  ELSE IF sectionDifficulty(st.currentSection) # ""
  THEN IF regexMatch(line, NotePattern) = 0
       THEN [st EXCEPT !.currentSection = ""]
       ELSE [st EXCEPT !.parser =
               parseNoteLine(@, line, sectionDifficulty(st.currentSection))]
  ELSE st

\* ChartParser.parse, one pass of the loop over the lines; st is the parser
\* and currentSection ("" for null)
chartParseLine(st, line) ==
  IF isSectionLine(line)
  THEN [st EXCEPT !.currentSection = sectionName(line)]
  ELSE IF line = << >> \/ line = << Sym("{") >> \/ line = << Sym("}") >>
  THEN st
  ELSE IF st.currentSection = "Song"
  THEN [st EXCEPT !.parser = parseSongMetadata(@, line)]
  ELSE IF st.currentSection = "SyncTrack"
  THEN [st EXCEPT !.parser = parseSyncTrackLine(@, line)]
  ELSE IF sectionDifficulty(st.currentSection) # ""
  THEN [st EXCEPT !.parser =
          parseNoteLine(@, line, sectionDifficulty(st.currentSection))]
  ELSE st

\* song.ini files, a line being its tokens as for a chart: no file (the
\* empty text gives the same), every field, the artist alone after a line
\* that is no "key = value"
IniTexts ==
  {<< >>,
   << << Sym("[song]") >>,
      << Sym("name"), Sym("="), Sym("Ini Song") >>,
      << Sym("artist"), Sym("="), Sym("Ini Artist") >>,
      << Sym("charter"), Sym("="), Sym("Ini Charter") >>,
      << Sym("diff_guitar"), Sym("="), Num(3) >>,
      << Sym("song_length"), Sym("="), Num(95000) >> >>,
   << << Sym("loading_phrase") >>,
      << Sym("Artist"), Sym("="), Sym("Ini Artist") >> >>}

\* key.toLowerCase() for the keys of the model
toLowerCase(key) == IF key = "Artist" THEN "artist" ELSE key

\* parseSongIni, from line i on: /^(\w+)\s*=\s*(.+)$/ and the switch
RECURSIVE parseSongIni(_, _, _)
parseSongIni(lines, i, metadata) ==
  IF i > Len(lines) THEN metadata
  ELSE LET line == lines[i]
           matches == /\ Len(line) >= 3
                      /\ line[1].sym \notin {"=", "{", "}", "[", "]"}
                      /\ line[2].sym = "="
           key == toLowerCase(line[1].sym)
       IN parseSongIni(lines, i + 1,
            IF ~matches THEN metadata
            ELSE IF key = "name"
            THEN [metadata EXCEPT !.songName = line[3].sym]
            ELSE IF key = "artist"
            THEN [metadata EXCEPT !.artist = line[3].sym]
            ELSE IF key = "charter"
            THEN [metadata EXCEPT !.charter = line[3].sym]
            ELSE IF key = "diff_guitar"
            THEN [metadata EXCEPT !.chartDifficulty = line[3].num]
            ELSE IF key = "song_length"
            THEN [metadata EXCEPT !.duration = line[3].num]
            ELSE metadata)

\* loadFromFile of a .chart file, up to the loop of parse; metadata is the
\* local of loadFromFile
loadChartText ==
  /\ parserRef = NoParser /\ song = << >> /\ ~loader.isLoading
  /\ parse = NoParse
  /\ \E content \in ChartTexts, ini \in IniTexts :
       parse' = [kind |-> "chart", parser |-> NewChartParser,
                 metadata |-> parseSongIni(ini, 1, NoMetadata),
                 content |-> content, pos |-> 1, currentSection |-> ""]
  /\ loader' = [loader EXCEPT !.isLoading = TRUE, !.error = ""]
  /\ UNCHANGED << managerVars, audio, engineVars, now, parserRef >>
  /\ UNCHANGED shellVars

\* parse: the next line of the text
chartReadLine ==
  /\ parse.kind = "chart"
  /\ parse.pos <= Len(parse.content)
  /\ LET st == chartParseLine([parser |-> parse.parser,
                               currentSection |-> parse.currentSection],
                              parse.content[parse.pos])
     IN parse' = [parse EXCEPT !.parser = st.parser,
                               !.currentSection = st.currentSection,
                               !.pos = @ + 1]
  /\ UNCHANGED << managerVars, audio, engineVars, now, parserRef, loader >>
  /\ UNCHANGED shellVars

\* loadChartFile after parse, and the end of loadFromFile
chartTextLoaded ==
  /\ parse.kind = "chart"
  /\ parse.pos > Len(parse.content)
  /\ parse' = NoParse
  /\ parserRef' = [parse.parser EXCEPT !.parsed = TRUE]
  /\ LET available == chartAvailableDifficulties(parse.parser) IN
     IF available = {}
     THEN /\ song' = << >>
          /\ loader' = [loader EXCEPT
                          !.availableDifficulties = << >>,
                          !.error = "No se encontraron notas en el archivo .chart",
                          !.isLoading = FALSE]
     ELSE LET last == CHOOSE i \in available : \A j \in available : j <= i
          IN /\ song' = chartConvertToSongData(parse.parser,
                                               DifficultyOrder[last])
             /\ loader' = [loader EXCEPT
                             !.availableDifficulties =
                                difficultyList(available),
                             !.isLoading = FALSE]
  /\ UNCHANGED << gameState, countdownNumber, countdownIntervalRef,
                  finalStats, rendered, inflight, audio, engineVars, now >>
  /\ UNCHANGED shellVars

NextChartText ==
  \/ loadChartText \/ chartReadLine \/ chartTextLoaded
  \/ changeDifficulty \/ clearSong

SpecChartText == Init /\ [][NextChartText]_vars

(***************************************************************************)
(* MidiParser.parse on the bytes of a file.  The files are built from the  *)
(* notes they hold, a note being a Note On / Note Off pair [note, tick,     *)
(* duration], so that what the parser decodes can be compared with what    *)
(* was encoded.                                                            *)
(***************************************************************************)
\* a delta time as a variable-length quantity (below 2^14)
encodeVariableLength(n) ==
  IF n < 128 THEN << n >> ELSE << 128 + (n \div 128), n % 128 >>

\* the Note On and Note Off events of a set of pairs, in the order of the
\* stream: by tick, and at one tick the Note Off of an earlier note, then the
\* Note On, then the Note Off of a note of no length
pairEvents(pairs) ==
  LET all == {[tick |-> p.tick, note |-> p.note, isOn |-> TRUE,
               key |-> ((p.tick * 3 + 1) * 128) + p.note] : p \in pairs}
             \cup
             {[tick |-> p.tick + p.duration, note |-> p.note, isOn |-> FALSE,
               key |-> (((p.tick + p.duration) * 3
                          + (IF p.duration = 0 THEN 2 ELSE 0)) * 128)
                       + p.note] : p \in pairs}
      RECURSIVE ordered(_)
      ordered(rest) ==
        IF rest = {} THEN << >>
        ELSE LET first == CHOOSE e \in rest : \A f \in rest : e.key <= f.key
             IN << [tick |-> first.tick, note |-> first.note,
                    isOn |-> first.isOn] >> \o ordered(rest \ {first})
  IN ordered(all)

\* the bytes of the events of a track.  running: every event is a Note On
\* (velocity 0 for a Note Off) and only the first has its status byte;
\* meta: a text meta event stands before the second event and a system
\* exclusive event before every later one
RECURSIVE encodeEvents(_, _, _, _, _)
encodeEvents(events, running, meta, i, lastTick) ==
  IF i > Len(events) THEN << >>
  ELSE LET e == events[i]
           between == IF ~meta \/ i = 1 THEN << >>
                      ELSE IF i = 2 THEN << 0, 255, 1, 1, 65 >>
                      ELSE << 0, 240, 1, 247 >>
           status == IF running
                     THEN (IF i = 1 THEN << 144 >> ELSE << >>)
                     ELSE (IF e.isOn THEN << 144 >> ELSE << 128 >>)
           velocity == IF e.isOn THEN 100 ELSE 0
       IN between \o encodeVariableLength(e.tick - lastTick) \o status
            \o << e.note, velocity >>
            \o encodeEvents(events, running, meta, i + 1, e.tick)

\* 'MThd', length 6, format 1, the number of tracks, the time division
encodeHeader(trackCount, division) ==
  << 77, 84, 104, 100, 0, 0, 0, 6, 0, 1, 0, trackCount,
     division \div 256, division % 256 >>

\* 'MTrk', the length, the bytes
encodeTrack(bytes) == << 77, 84, 114, 107, 0, 0, 0, Len(bytes) >> \o bytes

\* 'PART GUITAR'
PART_GUITAR == << 80, 65, 82, 84, 32, 71, 85, 73, 84, 65, 82 >>

\* the End of Track meta event
EndOfTrack == << 0, 255, 47, 0 >>

\* the first track: Set Tempo 500000 at tick 0 and, by ending, End of Track;
\* End of Track and then padding; no End of Track at all; a Note On cut off
\* by the end of the track in place of End of Track
encodeTempoTrack(ending) ==
  encodeTrack(<< 0, 255, 81, 3, 7, 161, 32 >>
              \o (IF ending = "eot" THEN EndOfTrack
                  ELSE IF ending = "padded"
                  THEN EndOfTrack \o << 0, 144, 96, 100 >>
                  ELSE IF ending = "cut" THEN << 0, 144, 96 >>
                  ELSE << >>))

\* the track 'PART GUITAR' of a set of pairs
encodeGuitarTrack(pairs, running, meta) ==
  encodeTrack(<< 0, 255, 3, Len(PART_GUITAR) >> \o PART_GUITAR
              \o encodeEvents(pairEvents(pairs), running, meta, 1, 0)
              \o EndOfTrack)

\* the file of a source [pairs, running, meta, ending]
encodeFile(src) ==
  encodeHeader(2, 192) \o encodeTempoTrack(src.ending)
    \o encodeGuitarTrack(src.pairs, src.running, src.meta)

\* sets of pairs: two notes one after the other; a note of no length and a
\* long note at one tick; one note struck twice, the second more than 127
\* ticks after the first
MidiPairs ==
  {{[note |-> 96, tick |-> 0, duration |-> 96],
    [note |-> 98, tick |-> 96, duration |-> 96]},
   {[note |-> 96, tick |-> 96, duration |-> 0],
    [note |-> 98, tick |-> 96, duration |-> 192]},
   {[note |-> 97, tick |-> 0, duration |-> 48],
    [note |-> 97, tick |-> 48, duration |-> 200]}}

MidiSources ==
  [pairs : MidiPairs, running : BOOLEAN, meta : BOOLEAN,
   ending : {"eot", "padded", "none", "cut"}]

\* a source that stands for no source: the file was not built from pairs
NoSource == [pairs |-> {}, running |-> FALSE, meta |-> FALSE, ending |-> ""]

\* a meta event of type 0x7F whose length, 8F FF FF FF 73, is 2^32 - 13: it
\* stands 5 bytes after the start of the event before it and is 8 bytes
\* long
BackwardMeta == << 0, 255, 127, 143, 255, 255, 255, 115 >>

\* files that are no MIDI files of the kind the parser reads: a wrong magic,
\* a header of length 7, frame-based timing, a second chunk that is no
\* 'MTrk', a file cut off in its first track; a track with a text event
\* and a meta event of length 2^32 - 13
BadMidiStreams ==
  {<< 82, 73, 70, 70 >> \o SubSeq(encodeHeader(1, 192), 5, 14)
     \o encodeTrack(EndOfTrack),
   << 77, 84, 104, 100, 0, 0, 0, 7, 0, 1, 0, 1, 0, 192, 0 >>
     \o encodeTrack(EndOfTrack),
   encodeHeader(1, 32768 + 25 * 256 + 40) \o encodeTrack(EndOfTrack),
   encodeHeader(2, 192) \o encodeTrack(EndOfTrack)
     \o << 77, 84, 114, 88, 0, 0, 0, 4 >> \o EndOfTrack,
   encodeHeader(1, 192) \o << 77, 84, 114, 107, 0, 0, 0, 8, 0, 255 >>,
   encodeHeader(1, 192)
     \o encodeTrack(<< 0, 255, 1, 1, 65 >> \o BackwardMeta \o EndOfTrack)}

\* DataView.getUint8 at a 0-based offset; -1 stands for the RangeError an
\* offset outside the buffer throws
getUint8(data, pos) ==
  IF pos >= 0 /\ pos < Len(data) THEN data[pos + 1] ELSE 0 - 1

RangeError == "Offset is outside the bounds of the DataView"

\* readUint16 and readUint32 (big endian), -1 for a RangeError
getUint16(data, pos) ==
  IF pos >= 0 /\ pos + 2 <= Len(data)
  THEN data[pos + 1] * 256 + data[pos + 2] ELSE 0 - 1

getUint32(data, pos) ==
  IF pos >= 0 /\ pos + 4 <= Len(data)
  THEN ((data[pos + 1] * 256 + data[pos + 2]) * 256 + data[pos + 3]) * 256
         + data[pos + 4]
  ELSE 0 - 1

\* readString(length), << -1 >> for a RangeError; a length below 1 reads
\* nothing
getString(data, pos, length) ==
  IF length <= 0 THEN << >>
  ELSE IF pos >= 0 /\ pos + length <= Len(data)
  THEN SubSeq(data, pos + 1, pos + length) ELSE << 0 - 1 >>

\* (value << 7) | (byte & 0x7f): the shift and the or work on 32-bit signed
\* integers, the bits shifted out at the top are lost
shiftIn(value, byte) ==
  LET low == value % (2 ^ 25)
  IN IF low >= 2 ^ 24 THEN (low - 2 ^ 25) * 128 + (byte % 128)
     ELSE low * 128 + (byte % 128)

\* readVariableLength: the value, the offset after it, and whether a read
\* outside the buffer has thrown the RangeError
RECURSIVE readVariableLength(_, _, _)
readVariableLength(data, pos, value) ==
  LET byte == getUint8(data, pos) IN
  IF byte < 0 THEN [value |-> value, pos |-> pos, thrown |-> TRUE]
  ELSE IF byte >= 128
       THEN readVariableLength(data, pos + 1, shiftIn(value, byte))
       ELSE [value |-> shiftIn(value, byte), pos |-> pos + 1,
             thrown |-> FALSE]

\* new MidiParser(arrayBuffer) and the locals of parse and parseTrack:
\* phase is where parse is ("header", "chunk": before a track chunk,
\* "events": in the loop of parseTrack, "end": after the loop, "return"),
\* thrown the message of the error thrown ("" for none)
NewMidiBytesParser(data, source, metadata) ==
  [kind |-> "midi", data |-> data, source |-> source, metadata |-> metadata,
   phase |-> "header", thrown |-> "",
   pos |-> 0, trackCount |-> 0, resolution |-> 480, tempoTrack |-> << >>,
   tracks |-> << >>, i |-> 0,
   trackEnd |-> 0, trackName |-> << >>, events |-> << >>, currentTick |-> 0,
   lastStatus |-> 0]

\* a variant of parseHeaderBytes that does not look at the header length
parseHeaderBytesAnyLength(st) ==
  LET magic == getString(st.data, st.pos, 4)
      headerLength == getUint32(st.data, st.pos + 4)
      format == getUint16(st.data, st.pos + 8)
      trackCount == getUint16(st.data, st.pos + 10)
      resolution == getUint16(st.data, st.pos + 12)
  IN IF magic = << 0 - 1 >> THEN [st EXCEPT !.thrown = RangeError]
     ELSE IF magic # << 77, 84, 104, 100 >>
     THEN [st EXCEPT !.thrown = "No es un archivo MIDI valido"]
     ELSE IF headerLength < 0 THEN [st EXCEPT !.thrown = RangeError]
     ELSE IF format < 0 \/ trackCount < 0 \/ resolution < 0
     THEN [st EXCEPT !.thrown = RangeError]
     ELSE IF resolution >= 32768
     THEN [st EXCEPT !.thrown = "SMPTE timing no soportado",
                     !.trackCount = trackCount, !.resolution = resolution]
     ELSE [st EXCEPT !.phase = IF trackCount > 0 THEN "chunk" ELSE "return",
                     !.pos = st.pos + 14,
                     !.trackCount = trackCount, !.resolution = resolution]

\* MidiParser.parseHeader
parseHeaderBytes(st) ==
  LET magic == getString(st.data, st.pos, 4)
      headerLength == getUint32(st.data, st.pos + 4)
      format == getUint16(st.data, st.pos + 8)
      trackCount == getUint16(st.data, st.pos + 10)
      resolution == getUint16(st.data, st.pos + 12)
  IN IF magic = << 0 - 1 >> THEN [st EXCEPT !.thrown = RangeError]
     ELSE IF magic # << 77, 84, 104, 100 >>
     THEN [st EXCEPT !.thrown = "No es un archivo MIDI valido"]
     ELSE IF headerLength < 0 THEN [st EXCEPT !.thrown = RangeError]
     ELSE IF headerLength # 6
     THEN [st EXCEPT !.thrown = "Header MIDI invalido"]
     ELSE IF format < 0 \/ trackCount < 0 \/ resolution < 0
     THEN [st EXCEPT !.thrown = RangeError]
     ELSE IF resolution >= 32768
     THEN [st EXCEPT !.thrown = "SMPTE timing no soportado",
                     !.trackCount = trackCount, !.resolution = resolution]
     ELSE [st EXCEPT !.phase = IF trackCount > 0 THEN "chunk" ELSE "return",
                     !.pos = st.pos + 14,
                     !.trackCount = trackCount, !.resolution = resolution]

\* parseTrack up to its loop: the magic, the length, the locals
parseTrackChunk(st) ==
  LET magic == getString(st.data, st.pos, 4)
      trackLength == getUint32(st.data, st.pos + 4)
  IN IF magic = << 0 - 1 >> THEN [st EXCEPT !.thrown = RangeError]
     ELSE IF magic # << 77, 84, 114, 107 >>
     THEN [st EXCEPT !.thrown = "Track MIDI invalido"]
     ELSE IF trackLength < 0 THEN [st EXCEPT !.thrown = RangeError]
     ELSE [st EXCEPT !.phase = "events", !.pos = st.pos + 8,
                     !.trackEnd = st.pos + 8 + trackLength,
                     !.trackName = << >>, !.events = << >>,
                     !.currentTick = 0, !.lastStatus = 0]

\* parseTrack, a meta event (status 0xFF) at st.pos
parseMetaEvent(st) ==
  LET metaType == getUint8(st.data, st.pos)
      metaLength == readVariableLength(st.data, st.pos + 1, 0)
  IN IF metaType < 0 \/ metaLength.thrown
     THEN [st EXCEPT !.thrown = RangeError]
     ELSE IF metaType = 3
     THEN LET name == getString(st.data, metaLength.pos, metaLength.value)
          IN IF name = << 0 - 1 >> THEN [st EXCEPT !.thrown = RangeError]
             ELSE [st EXCEPT !.trackName = name,
                             !.pos = metaLength.pos
                                       + Max(0, metaLength.value)]
     ELSE IF metaType = 81 /\ metaLength.value = 3
     THEN LET b1 == getUint8(st.data, metaLength.pos)
              b2 == getUint8(st.data, metaLength.pos + 1)
              b3 == getUint8(st.data, metaLength.pos + 2)
          IN IF b1 < 0 \/ b2 < 0 \/ b3 < 0
             THEN [st EXCEPT !.thrown = RangeError]
             ELSE [st EXCEPT
                     !.tempoTrack =
                        Append(@, [tick |-> st.currentTick,
                                   tempo |-> (b1 * 256 + b2) * 256 + b3]),
                     !.pos = metaLength.pos + 3]
     ELSE IF metaType = 47
     THEN [st EXCEPT !.phase = "end", !.pos = metaLength.pos]
     ELSE [st EXCEPT !.pos = metaLength.pos + metaLength.value]

\* parseTrack, the event of a status byte, st.pos being after that byte
parseStatusEvent(st, status) ==
  IF status = 255 THEN parseMetaEvent(st)
  ELSE IF status = 240 \/ status = 247
  THEN LET sysexLength == readVariableLength(st.data, st.pos, 0)
       IN IF sysexLength.thrown THEN [st EXCEPT !.thrown = RangeError]
          ELSE [st EXCEPT !.pos = sysexLength.pos + sysexLength.value]
  ELSE IF status \div 16 = 9 \/ status \div 16 = 8
  THEN LET note == getUint8(st.data, st.pos)
           velocity == getUint8(st.data, st.pos + 1)
       IN IF note < 0 \/ velocity < 0 THEN [st EXCEPT !.thrown = RangeError]
          ELSE [st EXCEPT
                  !.events =
                     Append(@, [tick |-> st.currentTick, note |-> note,
                                velocity |-> velocity,
                                isOn |-> IF status \div 16 = 9
                                         THEN velocity > 0 ELSE FALSE]),
                  !.pos = st.pos + 2]
  ELSE IF status \div 16 = 12 \/ status \div 16 = 13
  THEN [st EXCEPT !.pos = st.pos + 1]
  ELSE IF status \div 16 >= 8
  THEN [st EXCEPT !.pos = st.pos + 2]
  ELSE st

\* a variant of nextLastStatus in which a meta or system exclusive event
\* cancels the running status
nextLastStatusCancelled(lastStatus, byte) ==
  IF byte < 128 THEN lastStatus
  ELSE IF byte < 240 THEN byte
  ELSE 0

\* lastStatus after the byte read as status: a data byte and a system
\* message (0xF0 and above) leave it
nextLastStatus(lastStatus, byte) ==
  IF byte < 128 THEN lastStatus
  ELSE IF byte < 240 THEN byte
  ELSE lastStatus

\* a variant of parseTrackEvent that takes the delta time of an event for
\* its tick
parseTrackEventTicksNotSummed(st) ==
  LET deltaTime == readVariableLength(st.data, st.pos, 0) IN
  IF deltaTime.thrown THEN [st EXCEPT !.thrown = RangeError]
  ELSE
  LET currentTick == deltaTime.value
      byte == getUint8(st.data, deltaTime.pos)
  IN IF byte < 0 THEN [st EXCEPT !.thrown = RangeError]
     ELSE IF byte < 128 /\ st.lastStatus = 0
     THEN [st EXCEPT !.currentTick = currentTick, !.pos = deltaTime.pos]
     ELSE parseStatusEvent(
            [st EXCEPT !.currentTick = currentTick,
                       !.pos = IF byte < 128 THEN deltaTime.pos
                               ELSE deltaTime.pos + 1,
                       !.lastStatus = nextLastStatus(st.lastStatus, byte)],
            IF byte < 128 THEN st.lastStatus ELSE byte)

\* parseTrack, one pass of its loop
parseTrackEvent(st) ==
  LET deltaTime == readVariableLength(st.data, st.pos, 0) IN
  IF deltaTime.thrown THEN [st EXCEPT !.thrown = RangeError]
  ELSE
  LET currentTick == st.currentTick + deltaTime.value
      byte == getUint8(st.data, deltaTime.pos)
  IN IF byte < 0 THEN [st EXCEPT !.thrown = RangeError]
     ELSE IF byte < 128 /\ st.lastStatus = 0
     THEN [st EXCEPT !.currentTick = currentTick, !.pos = deltaTime.pos]
     ELSE parseStatusEvent(
            [st EXCEPT !.currentTick = currentTick,
                       !.pos = IF byte < 128 THEN deltaTime.pos
                               ELSE deltaTime.pos + 1,
                       !.lastStatus = nextLastStatus(st.lastStatus, byte)],
            IF byte < 128 THEN st.lastStatus ELSE byte)

\* this.tracks.set(name, events)
tracksSet(tracks, name, events) ==
  IF \E k \in DOMAIN tracks : tracks[k].name = name
  THEN [k \in DOMAIN tracks |->
          IF tracks[k].name = name THEN [name |-> name, events |-> events]
          ELSE tracks[k]]
  ELSE Append(tracks, [name |-> name, events |-> events])

\* a variant of parseTrackEnd that leaves the cursor where the loop ended
parseTrackEndCursorKept(st) ==
  LET tracks == IF st.trackName # << >>
                THEN tracksSet(st.tracks, st.trackName, st.events)
                ELSE IF st.events # << >>
                THEN tracksSet(st.tracks, << 0 - 1, Len(st.tracks) >>,
                               st.events)
                ELSE st.tracks
  IN [st EXCEPT !.tracks = tracks, !.i = st.i + 1,
                !.phase = IF st.i + 1 < st.trackCount THEN "chunk"
                          ELSE "return"]

\* parseTrack after its loop, and the loop of parse
parseTrackEnd(st) ==
  LET tracks == IF st.trackName # << >>
                THEN tracksSet(st.tracks, st.trackName, st.events)
                ELSE IF st.events # << >>
                THEN tracksSet(st.tracks, << 0 - 1, Len(st.tracks) >>,
                               st.events)
                ELSE st.tracks
  IN [st EXCEPT !.pos = st.trackEnd, !.tracks = tracks, !.i = st.i + 1,
                !.phase = IF st.i + 1 < st.trackCount THEN "chunk"
                          ELSE "return"]

\* this.tracks.get('PART GUITAR') || this.tracks.get('PART BASS'): << >> for
\* undefined, << events >> otherwise
PART_BASS == << 80, 65, 82, 84, 32, 66, 65, 83, 83 >>

tracksGet(tracks, name) ==
  IF \E k \in DOMAIN tracks : tracks[k].name = name
  THEN << tracks[CHOOSE k \in DOMAIN tracks : tracks[k].name = name].events >>
  ELSE << >>

\* the parser parse() returns, as extractNotes, ticksToSeconds and
\* getAvailableDifficulties read it
parsedMidi(st) ==
  [kind |-> "midi", resolution |-> st.resolution,
   tempoTrack |-> st.tempoTrack,
   guitar |-> IF tracksGet(st.tracks, PART_GUITAR) # << >>
              THEN tracksGet(st.tracks, PART_GUITAR)
              ELSE tracksGet(st.tracks, PART_BASS),
   parsed |-> TRUE]

\* MidiParser.parse as a whole: parseHeader, then parseTrack for every track
RECURSIVE midiParse(_)
midiParse(st) ==
  IF st.thrown # "" \/ st.phase = "return" THEN st
  ELSE IF st.phase = "header" THEN midiParse(parseHeaderBytes(st))
  ELSE IF st.phase = "chunk" THEN midiParse(parseTrackChunk(st))
  ELSE IF st.phase = "events" /\ st.pos < st.trackEnd
  THEN midiParse(parseTrackEvent(st))
  ELSE midiParse(parseTrackEnd(st))

\* the files: those built from pairs, with their source, and the others
MidiStreams ==
  {[data |-> encodeFile(src), source |-> src] : src \in MidiSources}
  \cup {[data |-> bytes, source |-> NoSource] : bytes \in BadMidiStreams}

\* loadFromFile of a .mid file, up to new MidiParser(arrayBuffer)
loadMidiBytes ==
  /\ ~loader.isLoading
  /\ parse = NoParse
  /\ \E file \in MidiStreams, ini \in IniTexts :
       parse' = NewMidiBytesParser(file.data, file.source,
                                   parseSongIni(ini, 1, NoMetadata))
  /\ loader' = [loader EXCEPT !.isLoading = TRUE, !.error = ""]
  /\ UNCHANGED << managerVars, audio, engineVars, now, parserRef >>
  /\ UNCHANGED shellVars

\* parse: parseHeader
midiParseHeader ==
  /\ parse.kind = "midi" /\ parse.thrown = "" /\ parse.phase = "header"
  /\ parse' = parseHeaderBytes(parse)
  /\ UNCHANGED << managerVars, audio, engineVars, now, parserRef, loader >>
  /\ UNCHANGED shellVars

\* parseTrack: the chunk header
midiParseChunk ==
  /\ parse.kind = "midi" /\ parse.thrown = "" /\ parse.phase = "chunk"
  /\ parse' = parseTrackChunk(parse)
  /\ UNCHANGED << managerVars, audio, engineVars, now, parserRef, loader >>
  /\ UNCHANGED shellVars

\* parseTrack: while (this.pos < trackEnd)
midiParseEvent ==
  /\ parse.kind = "midi" /\ parse.thrown = "" /\ parse.phase = "events"
  /\ parse.pos < parse.trackEnd
  /\ parse' = parseTrackEvent(parse)
  /\ UNCHANGED << managerVars, audio, engineVars, now, parserRef, loader >>
  /\ UNCHANGED shellVars

\* parseTrack: after the loop, left by its condition or by break
midiParseTrackEnd ==
  /\ parse.kind = "midi" /\ parse.thrown = ""
  /\ \/ parse.phase = "end"
     \/ parse.phase = "events" /\ parse.pos >= parse.trackEnd
  /\ parse' = parseTrackEnd(parse)
  /\ UNCHANGED << managerVars, audio, engineVars, now, parserRef, loader >>
  /\ UNCHANGED shellVars

\* loadFromFile: catch, for an error thrown by parse
loadFailed ==
  /\ parse.kind = "midi" /\ parse.thrown # ""
  /\ parse' = NoParse
  /\ song' = << >>
  /\ loader' = [loader EXCEPT !.error = parse.thrown, !.isLoading = FALSE]
  /\ UNCHANGED << gameState, countdownNumber, countdownIntervalRef,
                  finalStats, rendered, inflight, audio, engineVars, now,
                  parserRef >>
  /\ UNCHANGED shellVars

\* loadMidiFile after parse, and the end of loadFromFile
midiBytesLoaded ==
  /\ parse.kind = "midi" /\ parse.thrown = "" /\ parse.phase = "return"
  /\ parse' = NoParse
  /\ parserRef' = parsedMidi(parse)
  /\ LET available == midiAvailableDifficulties(parsedMidi(parse)) IN
     IF available = {}
     THEN /\ song' = << >>
          /\ loader' = [loader EXCEPT
                          !.metadataRef = parse.metadata,
                          !.availableDifficulties = << >>,
                          !.error = "No se encontraron notas de guitarra en el archivo MIDI",
                          !.isLoading = FALSE]
     ELSE LET last == CHOOSE i \in available : \A j \in available : j <= i
              songData == midiConvertToSongData(parsedMidi(parse),
                                                DifficultyOrder[last],
                                                parse.metadata)
          IN /\ song' = songData
             /\ loader' = [loader EXCEPT
                             !.metadataRef = parse.metadata,
                             !.availableDifficulties =
                                difficultyList(available),
                             !.error =
                                IF songData = << >>
                                THEN "Error al convertir las notas MIDI"
                                ELSE @,
                             !.isLoading = FALSE]
  /\ UNCHANGED << gameState, countdownNumber, countdownIntervalRef,
                  finalStats, rendered, inflight, audio, engineVars, now >>
  /\ UNCHANGED shellVars

NextMidiBytes ==
  \/ loadMidiBytes \/ midiParseHeader \/ midiParseChunk \/ midiParseEvent
  \/ midiParseTrackEnd \/ loadFailed \/ midiBytesLoaded
  \/ changeDifficulty \/ clearSong

SpecMidiBytes == Init /\ [][NextMidiBytes]_vars

(***************************************************************************)
(* Claims                                                                  *)
(***************************************************************************)
\* the engine's effect goes from playing to paused or from paused to playing
PauseOrResumeStep ==
  /\ rendered.gameState \in {"playing", "paused"}
  /\ rendered'.gameState \in {"playing", "paused"}
  /\ rendered'.gameState # rendered.gameState

\* the engine's effect is paused before and after the step
WhilePausedStep ==
  rendered.gameState = "paused" /\ rendered'.gameState = "paused"

\* C1: pausing a playing session and resuming it keeps the session: on the
\* step that pauses, on every step while paused and on the step that
\* resumes, the state and position of every note, the GameStats and gameTime
\* stay what they were.
C1_PauseResumeRetainsSession ==
  [][(PauseOrResumeStep \/ WhilePausedStep)
       => (gameNotes' = gameNotes /\ stats' = stats /\ gameTime' = gameTime)]_vars

\* resume() completes on a suspended, paused audio clock
ResumeCompletes ==
  /\ inflight # << >> /\ Head(inflight) = "resume"
  /\ inflight' = Tail(inflight)
  /\ audio.ctx /\ ~audio.running /\ ~audio.isPlayingRef
  /\ audio'.isPlayingRef

\* C2: for every calibration offset and after any number of pause/resume
\* cycles, when resume() completes getCurrentTime() continues from the time
\* T it reported while paused, whatever real time has passed in between.
C2_ResumeContinuesFromPause ==
  [][ResumeCompletes => getCurrentTime(audio') = getCurrentTime(audio)]_vars

\* multiplier(c) as the claim states it
ClaimMultiplier(c) ==
  IF c <= 9 THEN 1 ELSE IF c <= 19 THEN 2 ELSE IF c <= 29 THEN 3 ELSE 4

\* sum for i = 1..n of 100 * multiplier(i - before)
RECURSIVE PerfectSum(_, _)
PerfectSum(n, before) ==
  IF n = 0 THEN 0
  ELSE PerfectSum(n - 1, before) + 100 * ClaimMultiplier(n - before)

\* every press of the session so far was judged perfect
OnlyPerfects ==
  stats.goods = 0 /\ stats.oks = 0 /\ stats.misses = 0

\* C3 as stated: after N consecutive perfect presses from combo 0 and score
\* 0, score is the sum for i = 1..N of 100 * multiplier(i - 1).
C3_ScoreUsesComboBeforeHit ==
  OnlyPerfects => stats.score = PerfectSum(stats.perfects, 1)

\* C3 as amended: after N consecutive perfect presses from combo 0 and
\* score 0, score is the sum for i = 1..N of 100 * multiplier(i): each hit
\* is multiplied by the multiplier of the combo that the hit itself reaches.
C3_ScoreUsesComboAfterHit ==
  OnlyPerfects => /\ stats.combo = stats.perfects
                  /\ stats.score = PerfectSum(stats.perfects, 0)

\* thirty-one perfect presses in a row: every multiplier has been applied
C3_Witness ==
  OnlyPerfects /\ stats.perfects = 31 /\ lastHit.result = "perfect"


\* a step inside one session: the engine's effect is set up (playing or
\* paused) before and after it, for the same song
InSessionStep ==
  /\ EngineActive(rendered, song) /\ EngineActive(rendered', song')
  /\ song' = song
  /\ Len(gameNotes') = Len(gameNotes)

Judged(note) == note.hit \/ note.missed

\* C4: every note follows Pending -> Spawned -> {Hit, Missed}: a note is hit
\* or missed only when it has been spawned, no note is both hit and missed,
\* and within a session a note that is hit or missed keeps that state.
C4_NoteStateMachine ==
  [][/\ \A i \in DOMAIN gameNotes' :
          /\ Judged(gameNotes'[i]) => gameNotes'[i].spawned
          /\ ~(gameNotes'[i].hit /\ gameNotes'[i].missed)
     /\ InSessionStep =>
          \A i \in DOMAIN gameNotes :
             Judged(gameNotes[i]) =>
               /\ gameNotes'[i].hit = gameNotes[i].hit
               /\ gameNotes'[i].missed = gameNotes[i].missed
               /\ gameNotes'[i].spawned]_vars

\* C5: once handleGameEnd has set gameState to 'finished', gameState stays
\* 'finished' until the player starts a new session (countdown) or leaves
\* (menu), and no second end is signalled meanwhile.
C5_EndIsTerminal ==
  [][gameState = "finished"
       => /\ gameState' \in {"finished", "countdown", "menu"}
          /\ finalStats' \in {finalStats, << >>}]_vars

\* C6: on the step that signals the end of the session every note of the
\* timeline, spawned or not, is hit or missed afterwards, and misses has
\* grown by one for each note that was forced to missed.
C6_AllNotesJudgedAtEnd ==
  [][(gameState # "finished" /\ gameState' = "finished")
       => /\ \A i \in DOMAIN gameNotes' : Judged(gameNotes'[i])
          /\ stats'.misses = stats.misses
               + Cardinality({i \in DOMAIN gameNotes : ~Judged(gameNotes[i])})]_vars

\* the spawned, unjudged notes of a lane within the ok window of the hit line
Candidates(lane) ==
  {i \in DOMAIN gameNotes :
     /\ gameNotes[i].spawned /\ ~Judged(gameNotes[i])
     /\ gameNotes[i].carril = lane
     /\ Abs(gameNotes[i].y - 500 * PX) <= 100 * PX}

\* the engine takes lane keys
TakesLaneKeys == EngineActive(rendered, song) /\ ~isPaused

\* C7: a press of a lane that has no spawned, unjudged note within the ok
\* window adds exactly one miss, sets combo to 0, leaves the score as it is
\* and leaves every note of every lane as it is.
C7_StrayPress ==
  TakesLaneKeys =>
    \A lane \in KEY_TO_LANE :
       Candidates(lane) = {} =>
         LET r == checkHit(gameNotes, stats, lane) IN
         /\ r.stats.misses = stats.misses + 1
         /\ r.stats.combo = 0
         /\ r.stats.score = stats.score
         /\ r.stats.maxCombo = stats.maxCombo
         /\ r.stats.perfects = stats.perfects
         /\ r.stats.goods = stats.goods
         /\ r.stats.oks = stats.oks
         /\ r.lastHit.result = "miss"
         /\ r.gameNotes = gameNotes

\* a stray press has broken a combo while notes were on screen
C7_Witness ==
  /\ TakesLaneKeys
  /\ lastHit.result = "miss" /\ stats.misses = 1
  /\ \A i \in DOMAIN gameNotes : ~gameNotes[i].missed
  /\ \E i \in DOMAIN gameNotes : gameNotes[i].spawned /\ ~Judged(gameNotes[i])
  /\ stats.maxCombo >= 1 /\ stats.combo = 0

\* the candidate of a lane that the claim says is judged: the nearest to the
\* hit line, the earlier of the timeline when two are equally near
Nearest(lane) ==
  CHOOSE i \in Candidates(lane) :
    \A j \in Candidates(lane) :
       \/ Abs(gameNotes[i].y - 500 * PX) < Abs(gameNotes[j].y - 500 * PX)
       \/ /\ Abs(gameNotes[i].y - 500 * PX) = Abs(gameNotes[j].y - 500 * PX)
          /\ i <= j

\* C8: a press of a lane that has candidates judges the nearest one, the
\* earlier one on a tie; that note alone is consumed and no other note of
\* any lane changes.
C8_NearestNoteIsJudged ==
  TakesLaneKeys =>
    \A lane \in KEY_TO_LANE :
       Candidates(lane) # {} =>
         LET r == checkHit(gameNotes, stats, lane) IN
         /\ r.gameNotes[Nearest(lane)] =
              [gameNotes[Nearest(lane)] EXCEPT !.hit = TRUE]
         /\ \A i \in DOMAIN gameNotes :
              i # Nearest(lane) => r.gameNotes[i] = gameNotes[i]
         /\ r.stats.misses = stats.misses

\* two notes of one lane were equally far from the hit line, one above and
\* one below, and the press has judged the earlier one
C8_Witness ==
  /\ TakesLaneKeys
  /\ \E i, j \in DOMAIN gameNotes :
       /\ i < j
       /\ gameNotes[i].carril = gameNotes[j].carril
       /\ gameNotes[i].hit
       /\ gameNotes[j].spawned /\ ~Judged(gameNotes[j])
       /\ gameNotes[i].y # gameNotes[j].y
       /\ Abs(gameNotes[i].y - 500 * PX) = Abs(gameNotes[j].y - 500 * PX)
  /\ lastHit.result \in {"perfect", "good", "ok"}

\* C9: after the spawn step of a frame the spawned notes are exactly the
\* notes due so far, which are the prefix notes[0..nextNoteIndex); within a
\* session nextNoteIndex never decreases and a spawned note stays spawned.
C9_SpawnedPrefix ==
  [][/\ ( /\ EngineActive(rendered', song') /\ rendered'.gameState = "playing"
          /\ lastFrameTime' # 0 /\ animationId' )
        => \A i \in DOMAIN gameNotes' :
              /\ gameNotes'[i].spawned <=> i <= nextNoteIndex'
              /\ gameNotes'[i].spawned
                   <=> gameNotes'[i].segundo - 3 * SEC <= gameTime'
     /\ InSessionStep =>
          /\ nextNoteIndex' >= nextNoteIndex
          /\ \A i \in DOMAIN gameNotes :
                gameNotes[i].spawned => gameNotes'[i].spawned]_vars

\* the notes that a step marks missed
NewlyMissed ==
  {i \in DOMAIN gameNotes \cap DOMAIN gameNotes' :
     ~gameNotes[i].missed /\ gameNotes'[i].missed}

\* C10: the advance step marks missed every spawned, unhit note that is more
\* than 2 x noteRadius below the hit line, and only such notes; it then sets
\* combo to 0 and adds one miss per note.  The end of the song adds one miss
\* per note it marks.  No note is counted twice: the notes marked missed
\* never outnumber the misses.
C10_MissedByPassing ==
  [][/\ NewlyMissed # {} =>
          /\ stats'.misses = stats.misses + Cardinality(NewlyMissed)
          /\ \A i \in NewlyMissed : gameNotes[i].hit = FALSE
          /\ animationId' =>
               /\ stats'.combo = 0
               /\ \A i \in NewlyMissed :
                     gameNotes'[i].y > (500 + 2 * 25) * PX
     /\ \A i \in DOMAIN gameNotes' :
          ( /\ gameNotes'[i].spawned /\ ~gameNotes'[i].hit
            /\ gameNotes'[i].y > (500 + 2 * 25) * PX )
          => gameNotes'[i].missed
     /\ Cardinality({i \in DOMAIN gameNotes' : gameNotes'[i].missed})
          <= stats'.misses]_vars

\* a note has passed the hit zone unhit and has broken a combo
C10_Witness ==
  /\ animationId /\ ~isPaused
  /\ \E i \in DOMAIN gameNotes :
       gameNotes[i].missed /\ gameNotes[i].y > (500 + 2 * 25) * PX
  /\ stats.misses = 1 /\ stats.combo = 0 /\ stats.maxCombo >= 1
  /\ lastHit.result = "miss"

\* the number of non-miss judgments of a GameStats
Hits(st) == st.perfects + st.goods + st.oks

\* C11: combo counts the consecutive non-miss judgments since the last miss:
\* a step that adds a miss (stray press, note passing unhit, note forced to
\* missed at the end of the song) leaves combo at 0, a step that adds one
\* non-miss judgment and no miss adds one to combo, a step that adds no
\* judgment keeps combo, and the stats delivered at the end are these stats.
C11_ComboCountsSinceLastMiss ==
  [][/\ stats'.misses > stats.misses => stats'.combo = 0
     /\ (stats'.misses = stats.misses /\ Hits(stats') = Hits(stats) + 1)
          => stats'.combo = stats.combo + 1
     /\ (stats'.misses = stats.misses /\ Hits(stats') = Hits(stats))
          => stats'.combo = stats.combo
     /\ (finalStats' # finalStats /\ finalStats' # << >>)
          => finalStats' = << stats' >>]_vars

\* the judgment the nested windows give to a distance d of at most 100 px
WindowOf(d) ==
  IF d <= 30 * PX THEN "perfect" ELSE IF d <= 60 * PX THEN "good" ELSE "ok"

\* C12: a press that selects a note at distance d from the hit line is
\* judged perfect if d <= 30, good if 30 < d <= 60, ok if 60 < d <= 100
\* (distance 0 is perfect), and the counter of that judgment, and no other,
\* grows by exactly one.
C12_NestedWindows ==
  \A d \in 0 .. 100 * PX :
     LET h == hitBranch(stats, d) IN
     /\ h.lastHit.result = WindowOf(d)
     /\ d = 0 => h.lastHit.result = "perfect"
     /\ h.stats.perfects
          = stats.perfects + (IF WindowOf(d) = "perfect" THEN 1 ELSE 0)
     /\ h.stats.goods = stats.goods + (IF WindowOf(d) = "good" THEN 1 ELSE 0)
     /\ h.stats.oks = stats.oks + (IF WindowOf(d) = "ok" THEN 1 ELSE 0)
     /\ h.stats.misses = stats.misses

\* presses have been judged perfect, good and ok
C12_Witness ==
  /\ lastHit.result = "ok" /\ stats.oks = 1
  /\ stats.goods = 1 /\ stats.perfects >= 1 /\ stats.misses = 0

\* the sustain terminals
SustainTerminal(note) == note.sustain \in {"complete", "released"}

ReleasedEarly ==
  {i \in DOMAIN gameNotes \cap DOMAIN gameNotes' :
     gameNotes[i].sustain = "active" /\ gameNotes'[i].sustain = "released"}

\* C14: the release of an active sustain before its end breaks the combo to
\* 0 when less than half of its duration has elapsed since the note's time,
\* and leaves the combo as it is when half or more has elapsed.
C14_EarlyReleaseBreaksCombo ==
  [][\A i \in ReleasedEarly :
       /\ gameTime < gameNotes[i].segundo + gameNotes[i].duracion
       /\ IF 2 * (gameTime - gameNotes[i].segundo) < gameNotes[i].duracion
          THEN stats'.combo = 0
          ELSE stats'.combo = stats.combo]_vars

\* one sustain was released before half of it had elapsed, which broke a
\* combo, and another after more than half of it, which kept the combo
C14_Witness ==
  /\ Cardinality({i \in DOMAIN gameNotes :
                    gameNotes[i].sustain = "released"}) = 2
  /\ stats.combo >= 1 /\ stats.maxCombo > stats.combo
  /\ stats.misses = 0

\* C15: the return to the menu after a session tears the session down:
\* the song is null, the final stats are cleared, the audio clock is stopped
\* and unloaded with its position and its calibration offset back at 0, and
\* no notes, stats or game time of the session remain.
C15_BackToMenuTearsDown ==
  [][(gameState = "finished" /\ gameState' = "menu")
       => /\ song' = << >>
          /\ finalStats' = << >>
          /\ ~audio'.isLoaded /\ ~audio'.isPlaying /\ ~audio'.isPlayingRef
          /\ ~audio'.ctx
          /\ audio'.pausedAtRef = 0 /\ audio'.startTimeRef = 0
          /\ audio'.calibrationOffsetRef = 0
          /\ gameNotes' = << >>
          /\ stats' = InitialStats
          /\ gameTime' = 0]_vars

TempoPositions == {0, 96, 144, 192, 288, 384, 480}

\* the tempo map of a decoder is valid: ascending positions (every BPM and
\* every tempo of the files is positive)
validTempoMap(p) ==
  IF p.kind = "chart"
  THEN \A i, j \in DOMAIN p.bpmTrack :
         i < j => p.bpmTrack[i].beat < p.bpmTrack[j].beat
  ELSE IF p.kind = "midi"
  THEN \A i, j \in DOMAIN p.tempoTrack :
         i < j => p.tempoTrack[i].tick < p.tempoTrack[j].tick
  ELSE FALSE

\* secondsAt of the decoder in parserRef
secondsAt(p, position) ==
  IF p.kind = "chart" THEN beatsToSeconds(p, position)
  ELSE ticksToSeconds(p, position)

\* C17: for every valid tempo map (ascending positions, positive tempos)
\* secondsAt is monotonic non-decreasing in its position, in the text decoder
\* (beatsToSeconds) and in the binary decoder (ticksToSeconds), also across
\* a tempo change.
C17_SecondsAtMonotonic ==
  validTempoMap(parserRef) =>
    \A p, q \in TempoPositions :
       p <= q => secondsAt(parserRef, p) <= secondsAt(parserRef, q)

\* the tempo map [(0, 120 BPM), (192, 90 BPM)] at resolution 192 in the
\* decoder p (90 BPM is 666667 microseconds per beat)
TwoTempoMap(p) ==
  \/ /\ p.kind = "chart" /\ p.resolution = 192
     /\ p.bpmTrack = << [beat |-> 0, bpm |-> 120], [beat |-> 192, bpm |-> 90] >>
  \/ /\ p.kind = "midi" /\ p.resolution = 192
     /\ p.tempoTrack = << [tick |-> 0, tempo |-> 500000],
                          [tick |-> 192, tempo |-> 666667] >>

C19_TimelineSortedAndSustainsNonNegative ==
  song # << >> =>
    /\ \A i, j \in DOMAIN song[1].notes :
         i < j => song[1].notes[i].segundo <= song[1].notes[j].segundo
    /\ \A i \in DOMAIN song[1].notes : song[1].notes[i].duracion >= 0

\* C20: in every timeline, notes of equal segundo are in ascending lane
\* order, whatever their order in the file.
C20_TiesBrokenByLane ==
  song # << >> =>
    \A i, j \in DOMAIN song[1].notes :
       (i < j /\ song[1].notes[i].segundo = song[1].notes[j].segundo)
         => song[1].notes[i].carril <= song[1].notes[j].carril


\* the last note of the timeline of the song, with its position and its
\* length in ticks, as the decoder in p holds it
lastNoteTicks(p, difficulty) ==
  IF p.kind = "chart"
  THEN LET notes == p.difficulties[difficulty]
           timeline == sortBySegundo(
                         [i \in DOMAIN notes |->
                            [segundo |-> beatsToSeconds(p, notes[i].beat),
                             position |-> notes[i].beat,
                             durationTicks |-> notes[i].sustainBeats]])
       IN timeline[Len(timeline)]
  ELSE LET notes == extractNotes(p, difficulty)
       IN [position |-> notes[Len(notes)].tick,
           durationTicks |-> notes[Len(notes)].duration]

\* C21: for both decoders the duration of the timeline is
\* secondsAt(lastNote.position + lastNote.durationTicks) + 5 seconds, the end
\* of the sustain of the last note plus the buffer (compared at the two
\* decimals the metadata keeps).
C21_DurationIsEndOfLastNotePlusBuffer ==
  (song # << >> /\ parserRef # NoParser) =>
    LET lastNote == lastNoteTicks(parserRef, song[1].difficulty) IN
    song[1].duration =
      toFixed2(secondsAt(parserRef,
                         lastNote.position + lastNote.durationTicks)
                 + DURATION_BUFFER)


\* a song the loader exposes is a whole timeline: it has notes and counts
\* them all
UsableSong ==
  song # << >> =>
    /\ Len(song[1].notes) > 0
    /\ song[1].totalNotes = Len(song[1].notes)

\* C22: once a load or a change of difficulty has completed, the loader
\* exposes either a usable song and no error, or an error and no song: never
\* a song together with an error, and never a partly built song.
C22_SongOrError ==
  /\ [](~loader.isLoading => ~(song # << >> /\ loader.error # ""))
  /\ []UsableSong
  /\ [][(loader.isLoading /\ ~loader'.isLoading)
          => ((song' # << >>) # (loader'.error # ""))]_vars


\* a line that is neither a section header, nor blank, nor a brace, and in
\* which the pattern of its section does not occur
malformedLine(section, line) ==
  /\ ~isSectionLine(line)
  /\ line # << >> /\ line # << Sym("{") >> /\ line # << Sym("}") >>
  /\ \/ section = "Song" /\ songMatch(line) = 0
     \/ section = "SyncTrack" /\ regexMatch(line, SyncPattern) = 0
     \/ sectionDifficulty(section) # "" /\ regexMatch(line, NotePattern) = 0

\* the lines from i on without the malformed ones, section being the section
\* line i is in
RECURSIVE removeMalformed(_, _, _)
removeMalformed(lines, i, section) ==
  IF i > Len(lines) THEN << >>
  ELSE IF isSectionLine(lines[i])
  THEN << lines[i] >> \o removeMalformed(lines, i + 1, sectionName(lines[i]))
  ELSE (IF malformedLine(section, lines[i]) THEN << >> ELSE << lines[i] >>)
         \o removeMalformed(lines, i + 1, section)

\* parse of a whole text, from line i on
RECURSIVE chartParseLines(_, _, _)
chartParseLines(st, lines, i) ==
  IF i > Len(lines) THEN st
  ELSE chartParseLines(chartParseLine(st, lines[i]), lines, i + 1)

\* C23: parse never aborts on a malformed line: a line that does not match
\* the shape of its section is skipped (the step of parse that reads it goes
\* on to the next line) and leaves the parser as it was, so that what parse
\* has built after any number of lines is what it builds from the same lines
\* with the malformed ones removed.
C23_MalformedLinesSkipped ==
  /\ [](parse.kind = "chart" =>
          LET read == SubSeq(parse.content, 1, parse.pos - 1)
              clean == chartParseLines(
                         [parser |-> NewChartParser, currentSection |-> ""],
                         removeMalformed(read, 1, ""), 1)
          IN parse.parser = clean.parser)
  /\ [][(/\ parse.kind = "chart"
         /\ parse.pos <= Len(parse.content)
         /\ malformedLine(parse.currentSection, parse.content[parse.pos])
         /\ parse' # parse)
        => (/\ parse'.kind = "chart"
            /\ parse'.pos = parse.pos + 1
            /\ parse'.parser = parse.parser
            /\ parse'.currentSection = parse.currentSection)]_vars

\* a text has been read to its end in which a note without its sustain
\* field is followed, in the same section, by a note that was added
C23_Witness ==
  /\ parse.kind = "chart"
  /\ parse.pos > Len(parse.content)
  /\ Len(parse.content) = 7
  /\ parse.content[4] = << Num(192), Sym("="), Sym("N"), Num(2) >>
  /\ parse.parser.difficulties.expert =
       << [beat |-> 200, carril |-> 2, sustainBeats |-> 480] >>

\* the line parse is about to read is exactly "tick = N lane sustainTicks"
\* and is in the note section of a difficulty
AtNoteLine ==
  /\ parse.kind = "chart"
  /\ parse.pos <= Len(parse.content)
  /\ sectionDifficulty(parse.currentSection) # ""
  /\ Len(parse.content[parse.pos]) = 5
  /\ regexMatch(parse.content[parse.pos], NotePattern) = 1

\* C24: in the note section of a difficulty the step of parse that reads a
\* line "tick = N lane sustainTicks" adds no note when lane >= 5, and when
\* lane is 0..4 it adds exactly one note of that tick, lane and sustainTicks
\* to that difficulty and to no other.
C24_LaneCodeFilter ==
  [][(AtNoteLine /\ parse' # parse) =>
       LET line == parse.content[parse.pos]
           d == sectionDifficulty(parse.currentSection)
           note == [beat |-> line[1].num, carril |-> line[4].num,
                    sustainBeats |-> line[5].num]
       IN IF line[4].num >= 5
          THEN parse'.parser.difficulties = parse.parser.difficulties
          ELSE parse'.parser.difficulties =
                 [parse.parser.difficulties EXCEPT ![d] = Append(@, note)]
    ]_vars

\* [ExpertSingle] with "100 = N 6 0" and then "200 = N 2 480" has been
\* read: one note, of lane 2
C24_Witness ==
  /\ parse.kind = "chart"
  /\ parse.pos > Len(parse.content)
  /\ Len(parse.content) = 7
  /\ parse.content[4] = << Num(100), Sym("="), Sym("N"), Num(6), Num(0) >>
  /\ parse.content[5] = << Num(200), Sym("="), Sym("N"), Num(2), Num(480) >>
  /\ parse.parser.difficulties.expert =
       << [beat |-> 200, carril |-> 2, sustainBeats |-> 480] >>


\* what the claim says of a file, read off its bytes: the first four are
\* not "MThd", the header length is not 6, the top bit of the time division
\* is set
badHeader(data) ==
  \/ SubSeq(data, 1, 4) # << 77, 84, 104, 100 >>
  \/ SubSeq(data, 5, 8) # << 0, 0, 0, 6 >>
  \/ data[13] >= 128

\* the four bytes at a 0-based offset are not "MTrk"
badChunk(data, pos) ==
  SubSeq(data, pos + 1, pos + 4) # << 77, 84, 114, 107 >>

\* C25: MidiParser.parse fails when the file does not start with "MThd",
\* when the header length is not 6, when the top bit of the time division
\* is set, and when a chunk does not start with "MTrk"; the loader then
\* reports an error and exposes no song
C25_BadMidiFails ==
  [][(parse.kind = "midi" /\ parse' # parse) =>
       IF parse.thrown # ""
       THEN loader'.error # "" /\ song' = << >> /\ ~loader'.isLoading
       ELSE IF \/ parse.phase = "header" /\ badHeader(parse.data)
               \/ parse.phase = "chunk" /\ Len(parse.data) >= parse.pos + 4
                  /\ badChunk(parse.data, parse.pos)
       THEN parse'.thrown \in {"No es un archivo MIDI valido",
                               "Header MIDI invalido",
                               "SMPTE timing no soportado",
                               "Track MIDI invalido"}
       ELSE TRUE]_vars

\* a file whose second chunk is no track was loaded over a loaded song
C25_Witness ==
  /\ loader.error = "Track MIDI invalido"
  /\ song = << >>
  /\ parserRef # NoParser

\* the note events of the track PART GUITAR of a parse, as tick, note and
\* on/off
noteEvents(st) ==
  IF tracksGet(st.tracks, PART_GUITAR) = << >> THEN << >>
  ELSE LET events == tracksGet(st.tracks, PART_GUITAR)[1]
       IN [k \in DOMAIN events |->
             [tick |-> events[k].tick, note |-> events[k].note,
              isOn |-> events[k].isOn]]

\* the file of the same events in which every event has its status byte and
\* no other event stands between them
explicitFile(src) == encodeFile([src EXCEPT !.running = FALSE, !.meta = FALSE])

\* C26: a stream that uses running status decodes to the same note events
\* (tick, note, on/off) as the stream with every status byte written out,
\* also when meta and system exclusive events stand between the events
C26_RunningStatusDecodesAlike ==
  IF parse.kind # "midi" THEN TRUE
  ELSE (parse.phase = "return" /\ parse.source.running) =>
         noteEvents(parse)
           = noteEvents(midiParse(NewMidiBytesParser(
                          explicitFile(parse.source), parse.source,
                          parse.metadata)))

\* a parse of a running-status stream with a meta event and system
\* exclusive events between its events has returned four note events
C26_Witness ==
  /\ parse.kind = "midi"
  /\ parse.phase = "return"
  /\ parse.source.running /\ parse.source.meta
  /\ Len(noteEvents(parse)) = 4

\* the 0-based offset of chunk i (from 0) of a file, read off its bytes: the
\* header has 14 bytes, a chunk 8 and its declared length
RECURSIVE chunkStart(_, _)
chunkStart(data, i) ==
  IF i = 0 THEN 14
  ELSE chunkStart(data, i - 1) + 8
         + getUint32(data, chunkStart(data, i - 1) + 4)

\* the step of parseTrack that follows its loop
TrackCompletes ==
  /\ parse.kind = "midi" /\ parse.thrown = ""
  /\ \/ parse.phase = "end"
     \/ parse.phase = "events" /\ parse.pos >= parse.trackEnd
  /\ parse' # parse

\* the file of the same source whose first track ends with End of Track and
\* nothing else
cleanFile(src) == encodeFile([src EXCEPT !.ending = "eot"])

\* C27: when parseTrack completes, the cursor is at the start of the chunk
\* plus 8 plus the declared length, whatever the loop consumed (it stopped
\* at an End of Track before padding, or read past the end), and the note
\* events of the later track are those of the file whose first track has
\* neither
C27_CursorAtDeclaredEnd ==
  [][TrackCompletes =>
       /\ parse'.pos = chunkStart(parse.data, parse.i) + 8
                         + getUint32(parse.data,
                                     chunkStart(parse.data, parse.i) + 4)
       /\ (parse'.phase = "return" /\ parse.source # NoSource) =>
            noteEvents(parse')
              = noteEvents(midiParse(NewMidiBytesParser(
                             cleanFile(parse.source), parse.source,
                             parse.metadata)))]_vars

\* both tracks of a file are read, the first stopped before its padding or
\* was read past its end, and the cursor is at the end of the file
C27_Witness ==
  /\ parse.kind = "midi"
  /\ parse.phase = "return"
  /\ parse.source.ending \in {"padded", "cut"}
  /\ parse.pos = Len(parse.data)
  /\ Len(noteEvents(parse)) = 4

\* the notes extractNotes returns for the difficulty "expert" from a parse
\* that has returned, as a set of tick, lane and duration
decodedNotes(st) ==
  LET notes == extractNotes(parsedMidi(st), "expert")
  IN {[tick |-> notes[k].tick, carril |-> notes[k].carril,
       duration |-> notes[k].duration] : k \in DOMAIN notes}

ParseOfPairsReturned ==
  IF parse.kind # "midi" THEN FALSE
  ELSE parse.phase = "return" /\ parse.source # NoSource

zeroElapsedOffs(events) ==
  {k \in DOMAIN events :
     /\ ~events[k].isOn
     /\ \E j \in 1..(k - 1) :
          /\ events[j].note = events[k].note
          /\ events[j].isOn /\ events[j].tick = events[k].tick
          /\ \A i \in (j + 1)..(k - 1) : events[i].note # events[k].note}

MidiParsed ==
  IF parserRef = NoParser THEN FALSE
  ELSE parserRef.kind = "midi" /\ parserRef.parsed /\ parserRef.guitar # << >>

LoadGivesSong ==
  /\ parse.kind \in {"chart", "midi"}
  /\ parse' = NoParse
  /\ song' # << >>

\* C30: the fields of the song.ini that accompanies a chart or MIDI file
\* (name, artist, charter, difficulty, duration override) are the fields of
\* the metadata of the loaded song, and a value derived from the chart or
\* MIDI file is used only for a field the song.ini lacks, on both load paths
C30_IniFieldsMerged ==
  [][LoadGivesSong =>
       LET ini == parse.metadata
           metadata == song'[1]
       IN /\ ini.songName # "" => metadata.songName = ini.songName
          /\ ini.artist # "" => metadata.artist = ini.artist
          /\ ini.charter # "" => metadata.charter = ini.charter
          /\ ini.chartDifficulty >= 0 =>
               metadata.chartDifficulty = ini.chartDifficulty
          /\ ini.duration >= 0 => metadata.duration = ini.duration]_vars

\* C31: from the moment the end is signalled, no lane key press and no
\* frame changes the stats that were delivered to the results screen,
\* whenever the key comes relative to the teardown of the key listener
C31_DeliveredStatsAreFinal ==
  [][(gameState = "finished" /\ gameState' = "finished"
      /\ finalStats # << >>)
       => finalStats' = finalStats]_vars

\* the spawned notes of a lane that have not been hit and are at most the ok
\* distance from the hit line, before it or past it
UnhitInOkWindow(lane) ==
  {i \in DOMAIN gameNotes :
     /\ gameNotes[i].spawned /\ ~gameNotes[i].hit
     /\ gameNotes[i].carril = lane
     /\ Abs(gameNotes[i].y - GAME_CONFIG.hitZoneY) <= HIT_WINDOWS.ok}

\* C32: a press in the lane of a spawned note that has not been hit and is
\* at most the ok distance (100 px) from the hit line, early or late, is
\* judged against a note and is not recorded as a stray miss, while the
\* session runs
C32_JudgeableWithinOkWindow ==
  (TakesLaneKeys /\ animationId) =>
    \A lane \in KEY_TO_LANE :
       UnhitInOkWindow(lane) # {} =>
         LET r == checkHit(gameNotes, stats, lane)
         IN /\ r.lastHit.result # "miss"
            /\ r.stats.misses = stats.misses
            /\ \E i \in UnhitInOkWindow(lane) : r.gameNotes[i].hit

\* C33: at the end of every frame the signed distance of a spawned, unjudged
\* note to the hit line is (note time - gameTime) x note speed, so the note
\* is on the hit line when gameTime is its scheduled time
C33_NoDrift ==
  \A i \in DOMAIN gameNotes :
     (gameNotes[i].spawned /\ ~Judged(gameNotes[i])) =>
        GAME_CONFIG.hitZoneY - gameNotes[i].y
          = (gameNotes[i].segundo - gameTime) * noteSpeed

\* the counters of the stats agree with the notes
StatsAgreeWithNotes ==
  /\ Hits(stats) = Cardinality({i \in DOMAIN gameNotes : gameNotes[i].hit})
  /\ stats.misses
       >= Cardinality({i \in DOMAIN gameNotes : gameNotes[i].missed})
  /\ stats.combo <= stats.maxCombo
  /\ stats.maxCombo <= Hits(stats)

\* a step within one session: it is playing or paused before and after
InSession ==
  /\ gameState \in {"playing", "paused"}
  /\ gameState' \in {"playing", "paused"}

\* C34: in every state of a session perfects + goods + oks is the number of
\* notes marked hit, misses is at least the number of notes marked missed,
\* combo <= maxCombo <= perfects + goods + oks, and score and maxCombo never
\* decrease
C34_StatsConsistentAndMonotonic ==
  /\ []StatsAgreeWithNotes
  /\ [][InSession => /\ stats'.score >= stats.score
                     /\ stats'.maxCombo >= stats.maxCombo]_vars

\* getAvailableDifficulties of the parser in parserRef, as indices of
\* DifficultyOrder
availableDifficulties(p) ==
  IF p.kind = "chart" THEN chartAvailableDifficulties(p)
  ELSE midiAvailableDifficulties(p)

\* C35: for every difficulty getAvailableDifficulties returns,
\* convertToSongData of the same parser returns a song with at least one
\* note
C35_AdvertisedDifficultiesLoad ==
  IF parserRef = NoParser THEN TRUE
  ELSE parserRef.parsed =>
         \A i \in availableDifficulties(parserRef) :
            LET songData == convertToSongData(parserRef, DifficultyOrder[i],
                                              loader.metadataRef)
            IN /\ songData # << >>
               /\ Len(songData[1].notes) >= 1

(***************************************************************************)
(* The user-profile store by itself: registerUser, switchUser, deleteUser  *)
(* and addScore called in any order with any argument.                     *)
(***************************************************************************)
\* the store holds at most MaxScores score records
MaxScores == 2

\* the score records addScore is called with
ScoreInputs ==
  {[score |-> 0, accuracy |-> 0, rank |-> "F", maxCombo |-> 0],
   [score |-> 100, accuracy |-> 100, rank |-> "S", maxCombo |-> 1]}

RECURSIVE totalScores(_)
\* the number of score records of all users
totalScores(users) ==
  IF users = << >> THEN 0
  ELSE Len(Head(users).scores) + totalScores(Tail(users))

\* the ids of the users of the list
userIds(st) == {st.users[i].id : i \in DOMAIN st.users}

storeRegisterUser ==
  /\ \E id \in UserIds \ userIds(profilesState) :
       profilesState' = registerUser(profilesState, id)
  /\ UNCHANGED << managerVars, audio, engineVars, now, parserRef,
                  loaderVars, scoreSavedRef, timers >>

storeSwitchUser ==
  /\ \E userId \in UserIds :
       profilesState' = switchUser(profilesState, userId)
  /\ UNCHANGED << managerVars, audio, engineVars, now, parserRef,
                  loaderVars, scoreSavedRef, timers >>

storeDeleteUser ==
  /\ \E userId \in UserIds :
       profilesState' = deleteUser(profilesState, userId)
  /\ UNCHANGED << managerVars, audio, engineVars, now, parserRef,
                  loaderVars, scoreSavedRef, timers >>

storeAddScore ==
  /\ totalScores(profilesState.users) < MaxScores
  /\ \E score \in ScoreInputs :
       profilesState' = addScore(profilesState, score, now)
  /\ UNCHANGED << managerVars, audio, engineVars, now, parserRef,
                  loaderVars, scoreSavedRef, timers >>

NextProfiles ==
  \/ storeRegisterUser
  \/ storeSwitchUser
  \/ storeDeleteUser
  \/ storeAddScore

SpecProfiles == Init /\ [][NextProfiles]_vars

(***************************************************************************)
(* Gameplay with the profiles: the RegisterForm of the first start, the    *)
(* ProfileSelector of the menu and of the results screen, sessions without *)
(* audio, and the results screen that saves the score.                     *)
(***************************************************************************)
\* Gameplay shows ProfileSelector, which shows itself with a current user
selectorShown ==
  /\ rendered.gameState \in {"menu", "finished"}
  /\ hasActiveUser(profilesState)

\* RegisterForm -> onRegister: the form of the first start (no profiles)
\* or the form of ProfileSelector; the store is rendered with its effects
onRegisterUser ==
  /\ ~hasProfiles(profilesState) \/ selectorShown
  /\ \E id \in UserIds \ userIds(profilesState) :
       saveScoreEffect(rendered, finalStats, song,
                       registerUser(profilesState, id))
  /\ UNCHANGED << managerVars, audio, engineVars, now, parserRef,
                  loaderVars, timers >>

\* ProfileSelector: handleProfileClick on a profile of the list
onSwitchUser ==
  /\ selectorShown
  /\ \E i \in DOMAIN profilesState.users :
       saveScoreEffect(rendered, finalStats, song,
                       switchUser(profilesState, profilesState.users[i].id))
  /\ UNCHANGED << managerVars, audio, engineVars, now, parserRef,
                  loaderVars, timers >>

\* ProfileSelector: the delete button, shown for every profile but the
\* current one when there is more than one, then confirmDelete
onDeleteUser ==
  /\ selectorShown
  /\ Len(profilesState.users) > 1
  /\ \E i \in DOMAIN profilesState.users :
       /\ profilesState.users[i].id # currentUser(profilesState)[1].id
       /\ saveScoreEffect(rendered, finalStats, song,
                          deleteUser(profilesState,
                                     profilesState.users[i].id))
  /\ UNCHANGED << managerVars, audio, engineVars, now, parserRef,
                  loaderVars, timers >>

\* Gameplay returns the RegisterForm alone while there is no profile: the
\* menu takes input once there is one
NextResults ==
  \/ onRegisterUser
  \/ onSwitchUser
  \/ onDeleteUser
  \/ (hasProfiles(profilesState) /\ LoadSong)
  \/ (hasProfiles(profilesState) /\ handleStartGame)
  \/ CountdownTick
  \/ Render
  \/ LaneKey
  \/ Frame
  \/ handlePlayAgain
  \/ handleBackToMenu

SpecResults == Init /\ [][NextResults]_vars


\* the scores of the user with the id in the store st
scoresOf(st, id) ==
  st.users[CHOOSE i \in DOMAIN st.users : st.users[i].id = id].scores

\* the results screen of the finished session is on display
ResultsOnScreen == resultsShown(rendered, finalStats, song, profilesState)

\* one step of the store: the scores of a user that stays change only by
\* one record appended to the active user while a results screen mounts,
\* and the record holds the score of the finished session
ScoreSavedOnce ==
  \A id \in userIds(profilesState) \cap userIds(profilesState') :
     \/ scoresOf(profilesState', id) = scoresOf(profilesState, id)
     \/ /\ id = profilesState.activeUserId
        /\ ~scoreSavedRef /\ scoreSavedRef'
        /\ \E rec \in {Append(scoresOf(profilesState, id),
                              [score |-> finalStats[1].score,
                               accuracy |-> calculateAccuracy(finalStats[1]),
                               rank |-> getRank(
                                          calculateAccuracy(finalStats[1])),
                               maxCombo |-> finalStats[1].maxCombo,
                               playedAt |-> now])} :
              scoresOf(profilesState', id) = rec

\* the step that mounts a results screen with an active user records
MountRecords ==
  (~scoreSavedRef /\ scoreSavedRef' /\ hasActiveUser(profilesState))
    => totalScores(profilesState'.users)
         = totalScores(profilesState.users) + 1

\* C36: while the results screen of a finished session is shown its score
\* has been recorded (scoreSavedRef is set), the step that mounts the
\* screen appends exactly one record to the active user, and no other step
\* (a render of the screen after switching, registering or deleting a
\* user) changes the scores of any user
C36_ScoreRecordedOnce ==
  /\ [](ResultsOnScreen => scoreSavedRef)
  /\ [][ScoreSavedOnce /\ MountRecords]_vars

\* the results screen was rendered again with another user selected: the
\* record of this session is with the user who played, the current user
\* has none
C36_Witness ==
  /\ ResultsOnScreen
  /\ scoreSavedRef
  /\ Len(profilesState.users) >= 2
  /\ currentUser(profilesState)[1].scores = << >>
  /\ totalScores(profilesState.users) = 1
  /\ finalStats[1].score > 0


(***************************************************************************)
(* The countdown in real time: the song and the audio are loaded on the    *)
(* menu, the audio file is decoded in the background, the game is started, *)
(* and the intervals of startCountdown fire one second apart.              *)
(***************************************************************************)
\* the clock of the countdown specification stops after
\* MaxCountdownHalves half seconds
MaxCountdownHalves == 9

\* handleAudioFileSelect -> loadAudioFile, up to its await: the menu shows
\* the audio as not loaded while the file is decoded
loadAudioBegins ==
  /\ rendered.gameState = "menu" /\ gameState = "menu"
  /\ inflight = << >>
  /\ inflight' = << "load" >>
  /\ audio' = [audio EXCEPT !.isLoaded = FALSE]
  /\ rendered' = Snapshot(gameState, audio')
  /\ UNCHANGED << gameState, countdownNumber, countdownIntervalRef,
                  finalStats, song, engineVars, now >>
  /\ UNCHANGED parserRef
  /\ UNCHANGED loaderVars
  /\ UNCHANGED shellVars

\* decodeAudioData resolves, whatever the manager shows by then: the rest
\* of loadAudioFile runs and the manager is rendered
loadAudioSettles ==
  /\ inflight = << "load" >>
  /\ inflight' = << >>
  /\ audio' = loadAudioFile(audio)
  /\ rendered' = Snapshot(gameState, audio')
  /\ RunEffect(rendered', song)
  /\ GameResultsEffect(rendered', finalStats, song)
  /\ UNCHANGED << gameState, countdownNumber, countdownIntervalRef,
                  finalStats, song, now, timers >>
  /\ UNCHANGED parserRef
  /\ UNCHANGED loaderVars

\* startCountdown is called again while the countdown runs
startCountdownAgain ==
  /\ gameState = "countdown"
  /\ song # << >>
  /\ finalStats' = << >>
  /\ startCountdown
  /\ UNCHANGED << song, inflight, audio, now >>
  /\ UNCHANGED parserRef
  /\ UNCHANGED loaderVars
  /\ UNCHANGED profileVars

\* an interval fires when its second is over
CountdownTickDue ==
  \E i \in DOMAIN timers : timers[i].due = now /\ intervalCallback(i)

\* half a second passes; no interval is overdue
TimePasses ==
  /\ now + SEC \div 2 <= MaxCountdownHalves * (SEC \div 2)
  /\ \A i \in DOMAIN timers : timers[i].due >= now + SEC \div 2
  /\ now' = now + SEC \div 2
  /\ UNCHANGED << managerVars, audio, engineVars, parserRef, loaderVars,
                  shellVars >>

NextCountdown ==
  \/ LoadSong
  \/ loadAudioBegins
  \/ loadAudioSettles
  \/ handleStartGame
  \/ startCountdownAgain
  \/ CountdownTickDue
  \/ TimePasses

SpecCountdown == Init /\ [][NextCountdown]_vars

\* at most one interval is set, and while the countdown is shown the
\* number is COUNTDOWN_START less the full seconds since startCountdown
CountdownShows ==
  /\ Len(timers) <= 1
  /\ gameState = "countdown" =>
       /\ Len(timers) = 1
       /\ countdownNumber \in 1 .. COUNTDOWN_START
       /\ LET shown == now - timers[1].created
              n == COUNTDOWN_START - countdownNumber
          IN /\ shown >= n * COUNTDOWN_INTERVAL
             /\ shown <= (n + 1) * COUNTDOWN_INTERVAL

\* the menu is left only with a song, for a countdown from COUNTDOWN_START
StartNeedsSong ==
  (gameState = "menu" /\ gameState' # "menu")
    => /\ song # << >>
       /\ gameState' = "countdown"
       /\ countdownNumber' = COUNTDOWN_START

\* 'playing' is set by the countdown at 1, COUNTDOWN_START seconds after
\* startCountdown, and the interval is gone
PlayingOnce ==
  (gameState # "playing" /\ gameState' = "playing")
    => /\ gameState = "countdown"
       /\ countdownNumber = 1
       /\ now = timers[1].created + COUNTDOWN_START * COUNTDOWN_INTERVAL
       /\ timers' = << >>

\* when 'playing' is set with the audio loaded, the audio plays from 0
AudioStartedIfLoaded ==
  (gameState # "playing" /\ gameState' = "playing" /\ audio.isLoaded)
    => /\ audio'.isPlaying
       /\ audio'.isPlayingRef
       /\ audio'.pausedAtRef = 0
       /\ audio'.startTimeRef = audio'.ctxTime

\* the countdown without the audio: the part of C37 on the song, the
\* numbers, the single interval and the single start
C37_CountdownWithoutAudio ==
  /\ []CountdownShows
  /\ [][StartNeedsSong /\ PlayingOnce]_vars

\* C37: the game is started only with a song loaded; the countdown shows
\* 3, 2, 1 for one second each and then sets 'playing' once, with the audio
\* playing from 0 when audio is loaded; at most one countdown interval is
\* set at any time, also when the countdown is started again
C37_CountdownThenPlaying ==
  /\ []CountdownShows
  /\ [][StartNeedsSong /\ PlayingOnce /\ AudioStartedIfLoaded]_vars


\* the users of the store st other than those with the id, by position
remaining(st, userId) ==
  {i \in DOMAIN st.users : st.users[i].id # userId}

\* the id of the first user of the store st that does not have the id
firstRemaining(st, userId) ==
  LET rest == remaining(st, userId)
  IN st.users[CHOOSE i \in rest : \A j \in rest : i <= j].id

\* activeUserId is null or the id of a user of the list, and null only
\* when the list is empty
ActiveUserListed ==
  /\ profilesState.activeUserId \in userIds(profilesState) \cup {""}
  /\ profilesState.activeUserId = "" => profilesState.users = << >>

\* switchUser and deleteUser called in the state of the store with any id
SwitchAndDeleteSelect ==
  \A userId \in UserIds :
     LET active == profilesState.activeUserId
         switched == switchUser(profilesState, userId)
         deleted == deleteUser(profilesState, userId)
     IN /\ userId \notin userIds(profilesState)
             => switched.activeUserId = active
        /\ userId # active => deleted.activeUserId = active
        /\ (userId = active /\ remaining(profilesState, userId) # {})
             => deleted.activeUserId = firstRemaining(profilesState, userId)

\* C38: in every state of the store reached from the empty store by
\* registerUser, switchUser, deleteUser and addScore, activeUserId is null
\* or the id of a user of the list and null only when the list is empty;
\* switchUser of an unknown id and deleteUser of a user that is not active
\* leave activeUserId as it is, and deleteUser of the active user selects
\* the first remaining user
C38_ActiveUserValid == ActiveUserListed /\ SwitchAndDeleteSelect

\* two users are left and the first of them is the active one, as after
\* the deletion of an active third user
C38_Witness ==
  /\ Len(profilesState.users) = 2
  /\ profilesState.activeUserId = profilesState.users[1].id
  /\ totalScores(profilesState.users) = 0
  /\ UserIds \ userIds(profilesState) # {}


(***************************************************************************)
(* useSongLoader.loadFromFolder: the files of the selected folder, by      *)
(* name, in the order of the FileList.                                     *)
(***************************************************************************)
FolderNames == {"notes.chart", "notes.mid", "notes.midi", "song.ini"}

\* the folders: up to three files with different names, in any order
Folders ==
  {<< a >> : a \in FolderNames}
  \cup UNION {{<< a, b >> : b \in FolderNames \ {a}} : a \in FolderNames}
  \cup UNION {UNION {{<< a, b, c >> : c \in FolderNames \ {a, b}} :
                       b \in FolderNames \ {a}} : a \in FolderNames}

\* chartFile.name.toLowerCase().split('.').pop() for the names of the model
extension(fileName) ==
  LET name == toLowerCase(fileName)
  IN IF name = "notes.chart" THEN "chart"
     ELSE IF name = "notes.mid" THEN "mid"
     ELSE IF name = "notes.midi" THEN "midi"
     ELSE "ini"

\* loadFromFolder: the loop over the files, from file i on; "" stands for
\* null
RECURSIVE findFiles(_, _, _, _)
findFiles(files, i, chartFile, iniFile) ==
  IF i > Len(files) THEN [chartFile |-> chartFile, iniFile |-> iniFile]
  ELSE LET name == toLowerCase(files[i])
       IN IF name = "notes.mid" \/ name = "notes.midi"
          THEN findFiles(files, i + 1, files[i], iniFile)
          ELSE IF name = "notes.chart"
          THEN findFiles(files, i + 1, files[i], iniFile)
          ELSE IF name = "song.ini"
          THEN findFiles(files, i + 1, chartFile, files[i])
          ELSE findFiles(files, i + 1, chartFile, iniFile)

\* loadFromFolder, up to new ChartParser() in loadChartFile or new
\* MidiParser(arrayBuffer) in loadMidiFile; a folder without notes file
\* fails at once
loadFromFolder ==
  /\ parserRef = NoParser /\ song = << >> /\ ~loader.isLoading
  /\ \E files \in Folders, ini \in IniTexts, file \in MidiFiles :
       LET found == findFiles(files, 1, "", "")
           metadata == IF found.iniFile # ""
                       THEN parseSongIni(ini, 1, NoMetadata)
                       ELSE NoMetadata
       IN /\ parse' = [kind |-> "folder", files |-> files,
                       chartFile |-> found.chartFile,
                       metadata |-> metadata]
          /\ IF found.chartFile = ""
             THEN /\ loader' =
                       [loader EXCEPT
                          !.error = "No se encontro notes.mid o notes.chart en la carpeta",
                          !.isLoading = FALSE]
                  /\ UNCHANGED parserRef
             ELSE /\ loader' = [loader EXCEPT !.isLoading = TRUE,
                                              !.error = ""]
                  /\ parserRef' = IF extension(found.chartFile) = "chart"
                                  THEN NewChartParser
                                  ELSE NewMidiParser(file)
  /\ UNCHANGED << managerVars, audio, engineVars, now >>
  /\ UNCHANGED shellVars

NextFolder ==
  \/ loadFromFolder
  \/ parseSyncTrack \/ parseNote \/ chartLoaded
  \/ parseHeader \/ parseSetTempo \/ parseNoteEvent \/ endOfTrack
  \/ midiLoaded
  \/ clearSong

SpecFolder == Init /\ [][NextFolder]_vars

\* the folder of the load holds notes.chart and a MIDI notes file
bothFormats ==
  /\ parse.kind = "folder"
  /\ \E i \in DOMAIN parse.files :
        toLowerCase(parse.files[i]) = "notes.chart"
  /\ \E i \in DOMAIN parse.files :
        toLowerCase(parse.files[i]) \in {"notes.mid", "notes.midi"}

\* C39: the file loaded from a folder that holds notes.chart and notes.mid
\* or notes.midi is the .chart file, whatever the order of the files: the
\* parser of the load is a ChartParser
C39_ChartPreferred ==
  (bothFormats /\ parserRef # NoParser)
    => /\ extension(parse.chartFile) = "chart"
       /\ parserRef.kind = "chart"


\* one pass of the event loop of parseTrack
EventLoopPass ==
  /\ parse.kind = "midi" /\ parse.thrown = "" /\ parse.phase = "events"
  /\ parse.pos < parse.trackEnd
  /\ parse' = parseTrackEvent(parse)

\* C40: parseTrack terminates on every finite input: every pass of its event
\* loop that throws no error (running-status rewind, rewind before any
\* status byte, meta and system exclusive events of any declared length)
\* leaves the read cursor at least one byte further than it found it
C40_CursorMovesForward ==
  [][EventLoopPass =>
       \/ parse'.thrown # ""
       \/ parse'.pos > parse.pos]_vars

\* the loop of parseTrack is back, without an error, at an offset and with
\* the locals it had two passes before: a meta event of length 2^32 - 13
\* has moved the cursor 13 bytes back, to the event before it
EventLoopRepeats ==
  /\ parse.kind = "midi" /\ parse.thrown = "" /\ parse.phase = "events"
  /\ parse.pos < parse.trackEnd
  /\ parseTrackEvent(parseTrackEvent(parse)) = parse

============================================================================
